---- MODULE Spec2Model ----
(***************************************************************************)
(* Model of the AI theme generation pipeline of the pomodoro app:          *)
(*   services/ai-theme-generator.ts      (AIThemeGenerator)                *)
(*   services/ai-theme-service.ts        (OpenAIThemeAdapter,              *)
(*                                        ThemeProcessor)                  *)
(*   services/color-diversity-validator.ts (ColorDiversityValidator)       *)
(*   services/generated-theme-storage.ts (ContextualColorValidator part)   *)
(*                                                                         *)
(* Strings are sequences of one-character strings, so that includes(),     *)
(* toLowerCase(), trim() and the regular expressions of the source are     *)
(* computed and not assumed.                                               *)
(***************************************************************************)
EXTENDS Integers, Sequences, FiniteSets, TLC

Null == "null"

\* In(value) with the value computed once: TLC computes the argument of an
\* operator, and a LET definition, again at each use
Let(value, In(_)) == CHOOSE result \in { In(v) : v \in {value} } : TRUE

(***************************************************************************)
(* String primitives (JavaScript String.prototype)                         *)
(***************************************************************************)
UpperChars == <<"A","B","C","D","E","F","G","H","I","J","K","L","M",
                "N","O","P","Q","R","S","T","U","V","W","X","Y","Z">>
LowerChars == <<"a","b","c","d","e","f","g","h","i","j","k","l","m",
                "n","o","p","q","r","s","t","u","v","w","x","y","z">>

ToLowerChar(c) ==
  Let({ i \in 1..26 : UpperChars[i] = c },
      LAMBDA upper : IF upper = {} THEN c ELSE LowerChars[CHOOSE i \in upper : TRUE])

\* String.prototype.toLowerCase
ToLowerCase(s) == [i \in 1..Len(s) |-> ToLowerChar(s[i])]

\* String.prototype.includes
Includes(s, sub) ==
  \E i \in 0..(Len(s) - Len(sub)) :
    \A j \in 1..Len(sub) : s[i + j] = sub[j]

IsSpace(c) == c = " "

\* String.prototype.trim
Trim(s) ==
  IF \A i \in 1..Len(s) : IsSpace(s[i]) THEN <<>>
  ELSE LET first == CHOOSE i \in 1..Len(s) :
                      /\ ~IsSpace(s[i])
                      /\ \A j \in 1..(i-1) : IsSpace(s[j])
           last  == CHOOSE i \in 1..Len(s) :
                      /\ ~IsSpace(s[i])
                      /\ \A j \in (i+1)..Len(s) : IsSpace(s[j])
       IN  SubSeq(s, first, last)

\* s.replace(/[<>]/g, '')
RemoveAngleBrackets(s) == SelectSeq(s, LAMBDA c : c # "<" /\ c # ">")

(***************************************************************************)
(* OpenAIThemeAdapter.validatePrompt                                       *)
(***************************************************************************)
MaxPromptLength == 50

inappropriateWords ==
  << <<"h","a","t","e">>,
     <<"v","i","o","l","e","n","c","e">>,
     <<"e","x","p","l","i","c","i","t">> >>

\* a validation that finds no error
AcceptPrompt(prompt) ==
  [ isValid |-> TRUE, errors |-> << >>,
    sanitizedPrompt |-> << RemoveAngleBrackets(Trim(prompt)) >> ]

\* sanitizedPrompt is << >> where the source gives undefined

ValidatePrompt(prompt) ==
  LET lengthErrors ==
        IF Len(Trim(prompt)) = 0 THEN <<"Prompt cannot be empty">>
        ELSE IF Len(Trim(prompt)) > MaxPromptLength
             THEN <<"Prompt must be 50 characters or less">>
             ELSE <<>>
      lowerPrompt == ToLowerCase(prompt)
      contentErrors ==
        IF \E i \in 1..Len(inappropriateWords) :
             Includes(lowerPrompt, inappropriateWords[i])
        THEN <<"Prompt contains inappropriate content">>
        ELSE <<>>
      errors == lengthErrors \o contentErrors
      sanitizedPrompt == RemoveAngleBrackets(Trim(prompt))
  IN  [ isValid |-> Len(errors) = 0,
        errors |-> errors,
        sanitizedPrompt |-> IF Len(errors) = 0 THEN << sanitizedPrompt >> ELSE << >> ]

(***************************************************************************)
(* Hex colours                                                             *)
(***************************************************************************)
HexDigits == <<"0","1","2","3","4","5","6","7","8","9","a","b","c","d","e","f">>

\* the value of a hexadecimal digit, upper or lower case; -1 for any other
\* character
HexVal(c) ==
  Let(ToLowerChar(c),
      LAMBDA d : Let({ i \in 1..16 : HexDigits[i] = d },
                     LAMBDA found : IF found = {} THEN -1
                                    ELSE (CHOOSE i \in found : TRUE) - 1))

\* [a-f\d] under the flag i, [A-Fa-f0-9]
IsHexDigit(c) == HexVal(c) >= 0

\* hexToRgb: /^#?([a-f\d]{2})([a-f\d]{2})([a-f\d]{2})$/i and parseInt(.., 16);
\* "matched" is FALSE where the source returns null
HexToRgb(hex) ==
  LET body == IF Len(hex) > 0 /\ hex[1] = "#" THEN Tail(hex) ELSE hex
  IN  Let([ i \in 1..Len(body) |-> HexVal(body[i]) ],
          LAMBDA digit :
            IF Len(digit) = 6 /\ \A i \in 1..6 : digit[i] >= 0
            THEN [ matched |-> TRUE,
                   r |-> 16 * digit[1] + digit[2],
                   g |-> 16 * digit[3] + digit[4],
                   b |-> 16 * digit[5] + digit[6] ]
            ELSE [ matched |-> FALSE ])

\* /^#([A-Fa-f0-9]{6}|[A-Fa-f0-9]{3})$/
IsValidHexColor(color) ==
  /\ Len(color) \in {4, 7}
  /\ color[1] = "#"
  /\ \A i \in 2..Len(color) : IsHexDigit(color[i])

(***************************************************************************)
(* Real arithmetic.  Math.sqrt is computed in fixed point: a distance is   *)
(* an integer number of hundredths, floor(100 * sqrt(n)).                  *)
(***************************************************************************)
DistanceScale == 100

RECURSIVE IsqrtSearch(_, _, _)
IsqrtSearch(n, lo, hi) ==
  IF lo >= hi THEN lo
  ELSE Let((lo + hi + 1) \div 2,
           LAMBDA mid : IF mid * mid <= n THEN IsqrtSearch(n, mid, hi)
                                          ELSE IsqrtSearch(n, lo, mid - 1))

\* floor(sqrt(n)) for 0 <= n < 2^31
Isqrt(n) == Let(n, LAMBDA v : IsqrtSearch(v, 0, 46340))

(***************************************************************************)
(* ColorDiversityValidator: configuration                                  *)
(***************************************************************************)
\* DEFAULT_FALLBACK_COLORS
DEFAULT_FALLBACK_COLORS ==
  [ studyPrimary   |-> <<"#","6","B","7","3","F","F">>,
    studySecondary |-> <<"#","F","0","F","2","F","F">>,
    studyAccent    |-> <<"#","4","C","5","1","B","F">>,
    breakPrimary   |-> <<"#","4","8","B","B","7","8">>,
    breakSecondary |-> <<"#","F","0","F","F","F","4">>,
    breakAccent    |-> <<"#","3","8","A","1","6","9">> ]

\* DEFAULT_DIVERSITY_CONFIG.minColorDistance
minColorDistance == 50
\* DEFAULT_DIVERSITY_CONFIG.maxSimilarityScore = 0.7, in percent
maxSimilarityScore == 70
\* maxDistance = 441.67 in calculateThemeSimilarity, in hundredths
maxDistance == 44167
\* "keep last 10 themes" in addThemeToSession
SessionLimit == 10

(***************************************************************************)
(* ColorDiversityValidator: pure functions.  Distances are hundredths.     *)
(***************************************************************************)
Sq(x) == x * x

\* calculateRGBDistance: 0 when either colour does not parse
CalculateRGBDistance(color1, color2) ==
  Let([ k \in 1..2 |-> HexToRgb(<<color1, color2>>[k]) ],
      LAMBDA rgb :
        IF ~rgb[1].matched \/ ~rgb[2].matched THEN 0
        ELSE Isqrt((Sq(rgb[1].r - rgb[2].r) + Sq(rgb[1].g - rgb[2].g)
                      + Sq(rgb[1].b - rgb[2].b))
                   * DistanceScale * DistanceScale))

ColorFields == <<"primary", "secondary", "accent">>

\* calculateThemeColorDistance: 0.5 p + 0.3 s + 0.2 a, times 10
CalculateThemeColorDistance(colors1, colors2) ==
  Let([ i \in 1..3 |-> CalculateRGBDistance(colors1[ColorFields[i]],
                                            colors2[ColorFields[i]]) ],
      LAMBDA distance : 5 * distance[1] + 3 * distance[2] + 2 * distance[3])

FallbackStudyColors ==
  [ primary   |-> DEFAULT_FALLBACK_COLORS.studyPrimary,
    secondary |-> DEFAULT_FALLBACK_COLORS.studySecondary,
    accent    |-> DEFAULT_FALLBACK_COLORS.studyAccent ]

FallbackBreakColors ==
  [ primary   |-> DEFAULT_FALLBACK_COLORS.breakPrimary,
    secondary |-> DEFAULT_FALLBACK_COLORS.breakSecondary,
    accent    |-> DEFAULT_FALLBACK_COLORS.breakAccent ]

\* (studyDistance + breakDistance) / 2, times 2 * 10 * DistanceScale
FallbackDistance(aiResponse) ==
  Let([ k \in 1..2 |->
          CalculateThemeColorDistance(
            <<aiResponse.studyColors, aiResponse.breakColors>>[k],
            <<FallbackStudyColors, FallbackBreakColors>>[k]) ],
      LAMBDA distance : distance[1] + distance[2])

\* a validator that finds no theme close to the fallback theme
NeverBelowMinColorDistance(distance) == FALSE

\* averageDistance < minColorDistance
BelowMinColorDistance(distance) ==
  distance < minColorDistance * 2 * 10 * DistanceScale

\* validateAgainstFallback
ValidateAgainstFallback(aiResponse) ==
  Let(FallbackDistance(aiResponse),
      LAMBDA distance : [ distance  |-> distance,
                          isSimilar |-> BelowMinColorDistance(distance) ])

\* createThemeColorSummary / createThemeColorSummaryFromGenerated
CreateThemeColorSummary(theme) ==
  [ studyPrimary   |-> theme.studyColors.primary,
    studySecondary |-> theme.studyColors.secondary,
    studyAccent    |-> theme.studyColors.accent,
    breakPrimary   |-> theme.breakColors.primary,
    breakSecondary |-> theme.breakColors.secondary,
    breakAccent    |-> theme.breakColors.accent ]

SummaryFields == <<"studyPrimary", "studySecondary", "studyAccent",
                   "breakPrimary", "breakSecondary", "breakAccent">>

\* calculateSummaryDistance, times 6: the sum of the six colour distances
CalculateSummaryDistance(theme1, theme2) ==
  Let([ i \in 1..6 |-> CalculateRGBDistance(theme1[SummaryFields[i]],
                                            theme2[SummaryFields[i]]) ],
      LAMBDA distance : distance[1] + distance[2] + distance[3]
                          + distance[4] + distance[5] + distance[6])

\* a validator that finds no two themes too similar
SimilarityNeverExceedsMax(theme1, theme2) == FALSE

\* calculateThemeSimilarity(t1, t2) > maxSimilarityScore, that is
\* 1 - (sum / 6) / maxDistance > maxSimilarityScore / 100
SimilarityExceedsMax(theme1, theme2) ==
  100 * CalculateSummaryDistance(theme1, theme2)
    < 6 * (100 - maxSimilarityScore) * maxDistance

(***************************************************************************)
(* ContextualColorValidator: tables                                        *)
(***************************************************************************)
\* COLOR_FAMILIES (hue, saturation and lightness ranges)
COLOR_FAMILIES ==
  [ blues   |-> [ name |-> "Blues",        hueRange |-> <<180, 240>>,
                  saturationRange |-> <<30, 100>>, lightnessRange |-> <<20, 80>> ],
    oranges |-> [ name |-> "Oranges/Reds", hueRange |-> <<340, 60>>,
                  saturationRange |-> <<40, 100>>, lightnessRange |-> <<30, 80>> ],
    greens  |-> [ name |-> "Greens",       hueRange |-> <<80, 160>>,
                  saturationRange |-> <<30, 100>>, lightnessRange |-> <<25, 75>> ],
    purples |-> [ name |-> "Purples",      hueRange |-> <<240, 300>>,
                  saturationRange |-> <<30, 100>>, lightnessRange |-> <<25, 75>> ],
    grays   |-> [ name |-> "Grays/Blues",  hueRange |-> <<200, 240>>,
                  saturationRange |-> <<10, 50>>,  lightnessRange |-> <<40, 80>> ],
    pastels |-> [ name |-> "Pastels",      hueRange |-> <<0, 360>>,
                  saturationRange |-> <<20, 60>>,  lightnessRange |-> <<70, 90>> ],
    cool    |-> [ name |-> "Cool Colors",  hueRange |-> <<180, 300>>,
                  saturationRange |-> <<20, 80>>,  lightnessRange |-> <<60, 90>> ] ]

\* SEMANTIC_CONTEXTS, in declaration order (Object.values order)
SEMANTIC_CONTEXTS ==
  <<
    [ name |-> "ocean",
      keywords |-> <<<<"o","c","e","a","n">>, <<"s","e","a">>, <<"w","a","t","e","r">>, <<"w","a","v","e">>, <<"m","a","r","i","n","e">>, <<"a","q","u","a","t","i","c">>, <<"b","l","u","e">>, <<"d","e","e","p">>>>,
      expectedColorFamilies |-> << COLOR_FAMILIES.blues, COLOR_FAMILIES.cool >>,
      appropriateTypes |-> <<<<"f","l","o","w","i","n","g">>, <<"w","a","v","e">>, <<"r","i","p","p","l","e">>, <<"d","r","i","f","t">>, <<"g","e","n","t","l","e">>, <<"f","l","u","i","d">>>>,
      inappropriateTypes |-> <<<<"f","l","i","c","k","e","r">>, <<"d","a","n","c","e">>, <<"i","n","t","e","n","s","i","t","y">>, <<"s","h","a","r","p">>, <<"a","n","g","u","l","a","r">>>> ],
    [ name |-> "sunset",
      keywords |-> <<<<"s","u","n","s","e","t">>, <<"s","u","n","r","i","s","e">>, <<"g","o","l","d","e","n">>, <<"w","a","r","m">>, <<"e","v","e","n","i","n","g">>, <<"d","u","s","k">>, <<"o","r","a","n","g","e">>, <<"r","e","d">>>>,
      expectedColorFamilies |-> << COLOR_FAMILIES.oranges >>,
      appropriateTypes |-> <<<<"f","a","d","e">>, <<"g","l","o","w">>, <<"g","r","a","d","i","e","n","t","-","s","h","i","f","t">>, <<"g","e","n","t","l","e">>, <<"w","a","r","m">>, <<"s","o","f","t">>>>,
      inappropriateTypes |-> <<<<"s","h","a","r","p">>, <<"c","o","l","d">>, <<"c","r","y","s","t","a","l","l","i","n","e">>, <<"h","a","r","s","h">>>> ],
    [ name |-> "forest",
      keywords |-> <<<<"f","o","r","e","s","t">>, <<"t","r","e","e">>, <<"n","a","t","u","r","e">>, <<"g","r","e","e","n">>, <<"w","o","o","d","s">>, <<"n","a","t","u","r","a","l">>, <<"l","e","a","f">>, <<"p","l","a","n","t">>>>,
      expectedColorFamilies |-> << COLOR_FAMILIES.greens >>,
      appropriateTypes |-> <<<<"g","e","n","t","l","e","-","s","w","a","y">>, <<"o","r","g","a","n","i","c">>, <<"n","a","t","u","r","a","l">>, <<"g","r","o","w","t","h">>, <<"r","u","s","t","l","e">>>>,
      inappropriateTypes |-> <<<<"m","e","c","h","a","n","i","c","a","l">>, <<"a","r","t","i","f","i","c","i","a","l">>, <<"h","a","r","s","h">>, <<"m","e","t","a","l","l","i","c">>>> ],
    [ name |-> "mountain",
      keywords |-> <<<<"m","o","u","n","t","a","i","n">>, <<"p","e","a","k">>, <<"s","t","o","n","e">>, <<"r","o","c","k">>, <<"e","l","e","v","a","t","i","o","n">>, <<"h","i","g","h">>, <<"s","u","m","m","i","t">>>>,
      expectedColorFamilies |-> << COLOR_FAMILIES.grays, COLOR_FAMILIES.blues >>,
      appropriateTypes |-> <<<<"s","t","e","a","d","y">>, <<"s","o","l","i","d">>, <<"m","a","j","e","s","t","i","c">>, <<"s","t","r","o","n","g">>, <<"s","t","a","b","l","e">>>>,
      inappropriateTypes |-> <<<<"f","l","u","i","d">>, <<"f","l","o","w","i","n","g">>, <<"s","o","f","t">>, <<"d","e","l","i","c","a","t","e">>>> ],
    [ name |-> "fire",
      keywords |-> <<<<"f","i","r","e">>, <<"f","l","a","m","e">>, <<"h","e","a","t">>, <<"e","n","e","r","g","y">>, <<"r","e","d">>, <<"o","r","a","n","g","e">>, <<"b","u","r","n">>, <<"h","o","t">>>>,
      expectedColorFamilies |-> << COLOR_FAMILIES.oranges >>,
      appropriateTypes |-> <<<<"f","l","i","c","k","e","r">>, <<"d","a","n","c","e">>, <<"i","n","t","e","n","s","i","t","y">>, <<"d","y","n","a","m","i","c">>, <<"e","n","e","r","g","e","t","i","c">>>>,
      inappropriateTypes |-> <<<<"c","a","l","m">>, <<"s","t","i","l","l">>, <<"c","o","l","d">>, <<"f","r","o","z","e","n">>, <<"c","r","y","s","t","a","l","l","i","n","e">>>> ],
    [ name |-> "space",
      keywords |-> <<<<"s","p","a","c","e">>, <<"c","o","s","m","i","c">>, <<"s","t","a","r">>, <<"g","a","l","a","x","y">>, <<"u","n","i","v","e","r","s","e">>, <<"n","e","b","u","l","a">>, <<"d","a","r","k">>, <<"v","o","i","d">>>>,
      expectedColorFamilies |-> << COLOR_FAMILIES.purples, COLOR_FAMILIES.blues >>,
      appropriateTypes |-> <<<<"d","r","i","f","t">>, <<"c","o","s","m","i","c">>, <<"s","t","e","l","l","a","r">>, <<"m","y","s","t","e","r","i","o","u","s">>, <<"f","l","o","a","t","i","n","g">>>>,
      inappropriateTypes |-> <<<<"e","a","r","t","h","l","y">>, <<"g","r","o","u","n","d","e","d">>, <<"n","a","t","u","r","a","l">>, <<"o","r","g","a","n","i","c">>>> ],
    [ name |-> "spring",
      keywords |-> <<<<"s","p","r","i","n","g">>, <<"b","l","o","o","m">>, <<"f","r","e","s","h">>, <<"n","e","w">>, <<"g","r","o","w","t","h">>, <<"r","e","n","e","w","a","l">>, <<"p","a","s","t","e","l">>, <<"l","i","g","h","t">>>>,
      expectedColorFamilies |-> << COLOR_FAMILIES.pastels, COLOR_FAMILIES.greens >>,
      appropriateTypes |-> <<<<"b","l","o","o","m">>, <<"g","e","n","t","l","e">>, <<"f","r","e","s","h">>, <<"g","r","o","w","t","h">>, <<"r","e","n","e","w","a","l">>>>,
      inappropriateTypes |-> <<<<"h","a","r","s","h">>, <<"d","a","r","k">>, <<"h","e","a","v","y">>, <<"w","i","n","t","e","r">>>> ],
    [ name |-> "winter",
      keywords |-> <<<<"w","i","n","t","e","r">>, <<"s","n","o","w">>, <<"i","c","e">>, <<"c","o","l","d">>, <<"f","r","o","s","t">>, <<"w","h","i","t","e">>, <<"c","r","y","s","t","a","l">>, <<"f","r","o","z","e","n">>>>,
      expectedColorFamilies |-> << COLOR_FAMILIES.cool, COLOR_FAMILIES.grays >>,
      appropriateTypes |-> <<<<"c","r","y","s","t","a","l","l","i","n","e">>, <<"c","r","i","s","p">>, <<"s","e","r","e","n","e">>, <<"g","e","n","t","l","e">>, <<"f","l","o","a","t","i","n","g">>>>,
      inappropriateTypes |-> <<<<"w","a","r","m">>, <<"h","o","t">>, <<"f","i","e","r","y">>, <<"i","n","t","e","n","s","e">>, <<"f","l","i","c","k","e","r">>>> ]
  >>

(***************************************************************************)
(* ContextualColorValidator: pure functions                                *)
(***************************************************************************)
Max2(a, b) == IF a >= b THEN a ELSE b
Min2(a, b) == IF a <= b THEN a ELSE b
Abs(x) == IF x < 0 THEN -x ELSE x

\* "no context" (null) as an index into SEMANTIC_CONTEXTS
NoContext == 0

\* number of keywords of the context that the lower-cased prompt includes
KeywordMatches(lowerPrompt, context) ==
  Cardinality({k \in 1..Len(context.keywords) :
                 Includes(lowerPrompt, context.keywords[k])})

\* the loop of identifySemanticContext over contexts 1..n: <<bestMatch, maxMatches>>
RECURSIVE BestMatchUpTo(_, _)
BestMatchUpTo(lowerPrompt, n) ==
  IF n = 0 THEN <<NoContext, 0>>
  ELSE Let(<<BestMatchUpTo(lowerPrompt, n - 1),
             KeywordMatches(lowerPrompt, SEMANTIC_CONTEXTS[n])>>,
           \* <<bestMatch, maxMatches>> so far, and the matches of context n
           LAMBDA m : IF m[2] > m[1][2] THEN <<n, m[2]>> ELSE m[1])

\* the first context, in declaration order, with a keyword the lower-cased
\* prompt includes
FirstContextMatching(prompt) ==
  Let({ c \in 1..Len(SEMANTIC_CONTEXTS) :
          KeywordMatches(ToLowerCase(prompt), SEMANTIC_CONTEXTS[c]) > 0 },
      LAMBDA matching :
        IF matching = {} THEN NoContext
        ELSE CHOOSE c \in matching : \A other \in matching : c <= other)

\* identifySemanticContext: index into SEMANTIC_CONTEXTS, or NoContext
IdentifySemanticContext(prompt) ==
  Let(ToLowerCase(prompt),
      LAMBDA lowerPrompt :
        Let(BestMatchUpTo(lowerPrompt, Len(SEMANTIC_CONTEXTS)),
            LAMBDA best : IF best[2] > 0 THEN best[1] ELSE NoContext))

\* Math.round(x) for x = num / den >= 0
RoundDiv(num, den) == (2 * num + den) \div (2 * den)

\* hexToHsl: h in degrees, s and l in percent; "matched" is FALSE where the
\* source returns null
HslOfRgb(rgb) ==
      IF ~rgb.matched THEN [ matched |-> FALSE ]
      ELSE
        LET r  == rgb.r
            g  == rgb.g
            b  == rgb.b
            mx == Max2(r, Max2(g, b))
            mn == Min2(r, Min2(g, b))
            d  == mx - mn
            \* h * 6 * d, by the switch on max (case r first, then g, then b)
            h6d == IF mx = r THEN (g - b) + (IF g < b THEN 6 * d ELSE 0)
                   ELSE IF mx = g THEN (b - r) + 2 * d
                   ELSE (r - g) + 4 * d
            sDen == IF mx + mn > 255 THEN 510 - mx - mn ELSE mx + mn
        IN  [ matched |-> TRUE,
              h |-> IF d = 0 THEN 0 ELSE RoundDiv(60 * h6d, d),
              s |-> IF d = 0 THEN 0 ELSE RoundDiv(100 * d, sDen),
              l |-> RoundDiv(100 * (mx + mn), 510) ]

HexToHsl(hex) == Let(HexToRgb(hex), LAMBDA rgb : HslOfRgb(rgb))

\* Score units: a score in [0,1] is an integer in 0..ScoreScale
ScoreScale == 3000

\* hue part of calculateColorFamilyScore, in sixtieths
HueScore(h, family) ==
  LET minHue == family.hueRange[1]
      maxHue == family.hueRange[2]
      inside == IF minHue <= maxHue THEN h >= minHue /\ h <= maxHue
                                    ELSE h >= minHue \/ h <= maxHue
      hueDistance ==
        IF minHue <= maxHue
        THEN Min2(Abs(h - minHue), Abs(h - maxHue))
        ELSE Min2(Min2(Abs(h - minHue), 360 - Abs(h - minHue)),
                  Min2(Abs(h - maxHue), 360 - Abs(h - maxHue)))
  IN  IF inside THEN 60 ELSE Max2(0, 60 - hueDistance)

\* saturation / lightness part, in hundredths:
\* in range -> 1, else max(0, 1 - |v - (min + max) / 2| / 50)
RangeScore(v, range) ==
  IF v >= range[1] /\ v <= range[2] THEN 100
  ELSE Max2(0, 100 - Abs(2 * v - (range[1] + range[2])))

\* calculateColorFamilyScore: 0.7 hue + 0.2 saturation + 0.1 lightness
CalculateColorFamilyScore(hsl, family) ==
    7 * 5 * HueScore(hsl.h, family)
  + 2 * 3 * RangeScore(hsl.s, family.saturationRange)
  + 1 * 3 * RangeScore(hsl.l, family.lightnessRange)

\* one colour of calculateColorFamilyMatch: whether hexToHsl converts it, and
\* Math.max(...scores) over the expected families
BestFamilyScore(color, expectedFamilies) ==
  Let(HexToHsl(color),
      LAMBDA hsl :
        IF ~hsl.matched THEN [ valid |-> FALSE, best |-> 0 ]
        ELSE Let({ CalculateColorFamilyScore(hsl, expectedFamilies[f]) :
                     f \in 1..Len(expectedFamilies) },
                 LAMBDA scores :
                   [ valid |-> TRUE,
                     best |-> CHOOSE best \in scores :
                                \A score \in scores : best >= score ]))

\* totalScore over the first n colours
RECURSIVE TotalScoreUpTo(_, _)
TotalScoreUpTo(matches, n) ==
  IF n = 0 THEN 0 ELSE matches[n].best + TotalScoreUpTo(matches, n - 1)

\* calculateColorFamilyMatch: the average best score, as the rational
\* num / (ScoreScale * count)
CalculateColorFamilyMatch(colors, expectedFamilies) ==
  IF Len(expectedFamilies) = 0 THEN [ num |-> ScoreScale \div 2, count |-> 1 ]
  ELSE
    Let([ i \in 1..Len(colors) |-> BestFamilyScore(colors[i], expectedFamilies) ],
        LAMBDA matches :
          Let(Cardinality({ i \in 1..Len(matches) : matches[i].valid }),
              LAMBDA validColors :
                IF validColors > 0
                THEN [ num |-> TotalScoreUpTo(matches, Len(matches)),
                       count |-> validColors ]
                ELSE [ num |-> 0, count |-> 1 ]))

ColorList(colors) == << colors.primary, colors.secondary, colors.accent >>

\* a.includes(b) || b.includes(a) against some type of the list
MatchesSomeType(animationType, types) ==
  \E i \in 1..Len(types) :
    Let(ToLowerCase(types[i]),
        LAMBDA type : Includes(animationType, type) \/ Includes(type, animationType))

\* the class of one animation: the appropriate types are looked at first
ClassifyAnimation(type, context) ==
  Let(ToLowerCase(type),
      LAMBDA animationType :
        IF MatchesSomeType(animationType, context.appropriateTypes)
        THEN "appropriate"
        ELSE IF MatchesSomeType(animationType, context.inappropriateTypes)
             THEN "inappropriate"
             ELSE "neutral")

\* validateAnimationAppropriateness: the score as a rational, and the
\* animation types quoted in the issues
ValidateAnimationAppropriateness(aiResponse, context) ==
  Let([ i \in 1..Len(aiResponse.animations) |->
          ClassifyAnimation(aiResponse.animations[i], context) ],
      LAMBDA class :
        IF Len(class) = 0
        THEN [ num |-> 1, den |-> 2, quoted |-> {} ]
        ELSE [ num |-> Max2(0, Cardinality({i \in 1..Len(class) : class[i] = "appropriate"})
                              - Cardinality({i \in 1..Len(class) : class[i] = "inappropriate"})),
               den |-> Len(class),
               quoted |-> { aiResponse.animations[i] :
                              i \in {j \in 1..Len(class) : class[j] = "inappropriate"} } ])

\* overallScore >= 0.6, where
\*   overallScore = ((study + break) / 2 + animation) / 2
\* 4 * overallScore = study + break + 2 * animation is compared with 4 * 0.6,
\* both times 5 * ScoreScale * study.count * break.count * anim.den
OverallAppropriate(study, break, anim) ==
  5 * (study.num * break.count + break.num * study.count) * anim.den
    + 10 * anim.num * ScoreScale * study.count * break.count
  >= 12 * ScoreScale * study.count * break.count * anim.den

\* validateContextualAppropriateness, once identifySemanticContext has
\* given the context ctx (the three scores are computed once)
ContextualAppropriateness(ctx, aiResponse) ==
  IF ctx = NoContext
  THEN [ isAppropriate |-> TRUE, context |-> Null, quoted |-> {} ]
  ELSE
    Let(SEMANTIC_CONTEXTS[ctx],
        LAMBDA context :
          Let([ k \in 1..2 |->
                  CalculateColorFamilyMatch(
                    ColorList(<< aiResponse.studyColors, aiResponse.breakColors >>[k]),
                    context.expectedColorFamilies) ],
              LAMBDA match :
                Let(ValidateAnimationAppropriateness(aiResponse, context),
                    LAMBDA anim :
                      [ isAppropriate |-> OverallAppropriate(match[1], match[2], anim),
                        context |-> context.name,
                        quoted |-> anim.quoted ])))

\* validateContextualAppropriateness
ValidateContextualAppropriateness(prompt, aiResponse) ==
  ContextualAppropriateness(IdentifySemanticContext(prompt), aiResponse)

(***************************************************************************)
(* Inputs: the prompts a caller submits and the responses the remote       *)
(* service returns                                                         *)
(***************************************************************************)
Prompts ==
  << <<"o","c","e","a","n">>,
     <<"f","i","r","e"," ","s","e","<","a"," ","w","a","<","t","e","r">>,
     <<"f","o","r","b","i","d","d","e","n"," ","f","o","r","e","s","t">>,
     <<"c","a","l","m">>,
     <<"h","a","t","e">>,
     <<" "," ">> >>

PromptIds == 1..Len(Prompts)

Colors(p, s, a) == [ primary |-> p, secondary |-> s, accent |-> a ]

\* AIThemeResponse values; "animations" lists visualElements.animations[i].type
AIResponses ==
  [ ocean |->
      [ studyColors |-> Colors(<<"#","0","0","7","7","B","E">>,
                               <<"#","8","7","C","E","E","B">>,
                               <<"#","2","0","B","2","A","A">>),
        breakColors |-> Colors(<<"#","4","A","9","0","E","2">>,
                               <<"#","B","0","E","0","E","6">>,
                               <<"#","0","0","8","B","8","B">>),
        hasVisualElements |-> TRUE,
        animations |-> << <<"f","l","o","w","i","n","g">>, <<"w","a","v","e">> >>,
        hasThemeName |-> TRUE ],
    sunset |->
      [ studyColors |-> Colors(<<"#","F","F","6","B","3","5">>,
                               <<"#","F","F","D","2","3","F">>,
                               <<"#","F","7","9","3","1","E">>),
        breakColors |-> Colors(<<"#","F","F","8","C","4","2">>,
                               <<"#","F","F","F","8","D","C">>,
                               <<"#","E","7","4","C","3","C">>),
        hasVisualElements |-> TRUE,
        animations |-> << <<"f","a","d","e">>, <<"g","l","o","w">> >>,
        hasThemeName |-> TRUE ],
    \* the colours of the fallback theme itself
    fallbackLike |->
      [ studyColors |-> Colors(<<"#","6","B","7","3","F","F">>,
                               <<"#","F","0","F","2","F","F">>,
                               <<"#","4","C","5","1","B","F">>),
        breakColors |-> Colors(<<"#","4","8","B","B","7","8">>,
                               <<"#","F","0","F","F","F","4">>,
                               <<"#","3","8","A","1","6","9">>),
        hasVisualElements |-> TRUE,
        animations |-> << >>,
        hasThemeName |-> TRUE ],
    \* a 3-digit hex accent
    short3 |->
      [ studyColors |-> Colors(<<"#","F","F","6","B","3","5">>,
                               <<"#","F","F","D","2","3","F">>,
                               <<"#","F","9","0">>),
        breakColors |-> Colors(<<"#","F","F","8","C","4","2">>,
                               <<"#","F","F","F","8","D","C">>,
                               <<"#","E","7","4","C","3","C">>),
        hasVisualElements |-> TRUE,
        animations |-> << <<"f","a","d","e">>, <<"g","l","o","w">> >>,
        hasThemeName |-> TRUE ],
    \* the accent of the study colours is missing
    malformed |->
      [ studyColors |-> Colors(<<"#","0","0","7","7","B","E">>,
                               <<"#","8","7","C","E","E","B">>,
                               << >>),
        breakColors |-> Colors(<<"#","4","A","9","0","E","2">>,
                               <<"#","B","0","E","0","E","6">>,
                               <<"#","0","0","8","B","8","B">>),
        hasVisualElements |-> TRUE,
        animations |-> << >>,
        hasThemeName |-> TRUE ] ]

ResponseKeys == DOMAIN AIResponses

\* the colours applyFallbackTheme gives the fallback theme
FallbackThemeColors ==
  [ studyColors |-> Colors(<<"#","6","B","7","3","F","F">>,
                           <<"#","F","0","F","2","F","F">>,
                           <<"#","4","C","5","1","B","F">>),
    breakColors |-> Colors(<<"#","4","8","B","B","7","8">>,
                           <<"#","F","0","F","F","F","4">>,
                           <<"#","3","8","A","1","6","9">>) ]

FallbackKey == "fallback"

ThemeKeys == ResponseKeys \cup {FallbackKey}

\* the colours of a GeneratedTheme: processAIResponse copies the response's,
\* applyFallbackTheme uses the fixed ones
ThemeColorsOf(key) ==
  IF key = FallbackKey THEN FallbackThemeColors
  ELSE [ studyColors |-> AIResponses[key].studyColors,
         breakColors |-> AIResponses[key].breakColors ]

\* the ThemeColorSummary of every theme, computed once
SummaryOf == [ key \in ThemeKeys |-> CreateThemeColorSummary(ThemeColorsOf(key)) ]

(***************************************************************************)
(* ThemeProcessor: theme ids                                               *)
(***************************************************************************)
\* String.prototype.charCodeAt for the characters of the prompts
CharCode(c) ==
  IF \E i \in 1..26 : LowerChars[i] = c
    THEN 96 + (CHOOSE i \in 1..26 : LowerChars[i] = c)
  ELSE IF \E i \in 1..26 : UpperChars[i] = c
    THEN 64 + (CHOOSE i \in 1..26 : UpperChars[i] = c)
  ELSE IF c = " " THEN 32
  ELSE IF c = "<" THEN 60
  ELSE IF c = ">" THEN 62
  ELSE 63

\* One round of simpleHash on a 32-bit value kept as two 16-bit halves:
\*   hash = ((hash << 5) - hash) + char;  hash = hash & hash
HashRound(h, code) ==
  Let(h, LAMBDA hash :
           LET lo == 31 * hash[2] + code
               hi == 31 * hash[1] + lo \div 65536
           IN  << hi % 65536, lo % 65536 >>)

RECURSIVE HashChars(_, _)
HashChars(h, str) ==
  IF Len(str) = 0 THEN h
  ELSE HashChars(HashRound(h, CharCode(Head(str))), Tail(str))

\* Math.abs of the int32 whose two's complement halves are h
AbsInt32(h) ==
  IF h[1] < 32768 THEN h
  ELSE LET lo == (65536 - h[2]) % 65536
           hi == (65535 - h[1] + (IF h[2] = 0 THEN 1 ELSE 0)) % 65536
       IN  << hi, lo >>

\* simpleHash: the number printed in base 36, as its two 16-bit halves
SimpleHash(str) == AbsInt32(HashChars(<<0, 0>>, str))

PromptHash == [ p \in PromptIds |-> SimpleHash(Prompts[p]) ]

\* generateThemeId: `ai-theme-${promptHash}-${timestamp}`
GenerateThemeId(prompt, timestamp) ==
  [ prefix |-> "ai-theme-", hash |-> PromptHash[prompt], timestamp |-> timestamp ]

\* if (firstKey): a string is truthy unless it is empty
IsTruthyId(id) == id.prefix # ""

(***************************************************************************)
(* ColorDiversityValidator: the session map.  A Map is the sequence of its *)
(* entries in insertion order.                                             *)
(***************************************************************************)
\* Map.prototype.set: an existing key keeps its place
MapSet(map, entry) ==
  IF \E i \in 1..Len(map) : map[i].id = entry.id
  THEN [ i \in 1..Len(map) |-> IF map[i].id = entry.id THEN entry ELSE map[i] ]
  ELSE Append(map, entry)

\* addThemeToSession
AddThemeToSession(map, entry) ==
  LET added == MapSet(map, entry)
  IN  IF Len(added) > SessionLimit /\ IsTruthyId(added[1].id)
      THEN Tail(added)
      ELSE added

\* the results of the validators for every response the service can return,
\* computed once
FallbackValidationOf ==
  [ key \in ResponseKeys |-> ValidateAgainstFallback(AIResponses[key]) ]

\* calculateSummaryDistance between a response and a registered theme
SummaryDistanceOf ==
  [ key \in ResponseKeys |->
      [ other \in ThemeKeys |->
          CalculateSummaryDistance(SummaryOf[key], SummaryOf[other]) ] ]

\* similarity > this.config.maxSimilarityScore
TooSimilar ==
  [ key \in ResponseKeys |->
      [ other \in ThemeKeys |->
          SimilarityExceedsMax(SummaryOf[key], SummaryOf[other]) ] ]

\* a check that finds no conflict
NoConflictingThemes(map, key) == << >>

\* the conflictingThemes of validateSessionUniqueness
ConflictingThemes(map, key) ==
  LET conflicts == SelectSeq(map, LAMBDA e : TooSimilar[key][e.theme])
  IN  [ i \in 1..Len(conflicts) |-> conflicts[i].id ]

\* a result without recommendations
NoRecommendations(conflictingThemes, overallDistance) == {}

\* the recommendations of validateSessionUniqueness, as the phrases they
\* contain: 'Try a different color palette to avoid similarity with recent
\* themes' and 'Generated colors are too similar to default fallback theme'
Recommendations(conflictingThemes, overallDistance) ==
  (IF Len(conflictingThemes) > 0
   THEN {<<"r","e","c","e","n","t"," ","t","h","e","m","e","s">>}
   ELSE {})
    \cup (IF BelowMinColorDistance(overallDistance)
          THEN {<<"f","a","l","l","b","a","c","k"," ","t","h","e","m","e">>}
          ELSE {})

\* validateSessionUniqueness
ValidateSessionUniqueness(map, key) ==
  LET conflictingThemes == ConflictingThemes(map, key)
      overallDistance   == FallbackValidationOf[key].distance
  IN  [ isUnique |-> /\ Len(conflictingThemes) = 0
                     /\ ~BelowMinColorDistance(overallDistance),
        conflictingThemes |-> conflictingThemes,
        recommendations |-> Recommendations(conflictingThemes, overallDistance),
        overallDistance |-> overallDistance ]

(***************************************************************************)
(* Error messages.  A message is its source text ("text", with the         *)
(* interpolated values left out), the phrases the fixed text contains      *)
(* ("has") and the interpolated strings ("dyn").  The phrases are the      *)
(* ones the generator searches for, and those of the recommendations.      *)
(***************************************************************************)
\* a list that leaves the parsing errors out
PhrasesWithoutFailedToParse ==
  { <<"i","n","v","a","l","i","d"," ","a","p","i"," ","k","e","y">>,
    <<"i","n","v","a","l","i","d"," ","p","r","o","m","p","t">>,
    <<"f","o","r","b","i","d","d","e","n">>,
    <<"i","n","v","a","l","i","d"," ","r","e","s","p","o","n","s","e"," ",
      "f","r","o","m"," ","a","i"," ","s","e","r","v","i","c","e">> }

\* isNonRetryableError: searched in message.toLowerCase()
NonRetryablePhrases ==
  { <<"i","n","v","a","l","i","d"," ","a","p","i"," ","k","e","y">>,
    <<"i","n","v","a","l","i","d"," ","p","r","o","m","p","t">>,
    <<"f","a","i","l","e","d"," ","t","o"," ","p","a","r","s","e">>,
    <<"f","o","r","b","i","d","d","e","n">>,
    <<"i","n","v","a","l","i","d"," ","r","e","s","p","o","n","s","e"," ",
      "f","r","o","m"," ","a","i"," ","s","e","r","v","i","c","e">> }

\* searched in the message as it is
PhraseDiversity == <<"d","i","v","e","r","s","i","t","y">>
PhraseSimilar   == <<"s","i","m","i","l","a","r">>

PhraseInvalidApiKey == <<"i","n","v","a","l","i","d"," ","a","p","i"," ","k","e","y">>
PhraseFailedToParse == <<"f","a","i","l","e","d"," ","t","o"," ","p","a","r","s","e">>
PhraseForbidden     == <<"f","o","r","b","i","d","d","e","n">>
PhraseInvalidResponse ==
  <<"i","n","v","a","l","i","d"," ","r","e","s","p","o","n","s","e"," ",
    "f","r","o","m"," ","a","i"," ","s","e","r","v","i","c","e">>
PhraseFallbackTheme ==
  <<"f","a","l","l","b","a","c","k"," ","t","h","e","m","e">>

Message(text, has, dyn) == [ text |-> text, has |-> has, dyn |-> dyn ]

NoError == Message("", {}, {})

\* message.toLowerCase().includes(phrase)
LowerIncludes(msg, phrase) ==
  \/ phrase \in msg.has
  \/ \E d \in msg.dyn : Includes(ToLowerCase(d), phrase)

\* message.includes(phrase)
RawIncludes(msg, phrase) ==
  \/ phrase \in msg.has
  \/ \E d \in msg.dyn : Includes(d, phrase)

\* isNonRetryableError
IsNonRetryableError(error) ==
  \E phrase \in NonRetryablePhrases : LowerIncludes(error, phrase)

\* lastError.message.includes('diversity') || lastError.message.includes('similar')
IsDiversityRelated(error) ==
  RawIncludes(error, PhraseDiversity) \/ RawIncludes(error, PhraseSimilar)

(***************************************************************************)
(* OpenAIThemeAdapter.makeAPICall: what the transport can answer           *)
(***************************************************************************)
TransportErrors ==
  [ status429 |-> Message("Rate limit exceeded. Please try again later.", {}, {}),
    status401 |-> Message("Invalid API key. Please check your OpenAI API key in settings.",
                          {PhraseInvalidApiKey}, {}),
    status403 |-> Message("API access forbidden. Please check your OpenAI account permissions.",
                          {PhraseForbidden}, {}),
    status5xx |-> Message("OpenAI service temporarily unavailable. Please try again later.",
                          {}, {}),
    statusOther |-> Message("API request failed: ${response.status} ${response.statusText}",
                            {}, {}),
    \* response.json() throws 'Invalid JSON response from AI service', which the
    \* catch of makeAPICall turns into this message
    invalidJson |-> Message("Invalid response from AI service - please try again",
                            {PhraseInvalidResponse}, {}),
    noChoices |-> Message("Invalid API response: no choices returned", {}, {}),
    noContent |-> Message("Invalid API response: no content in message", {}, {}),
    \* the AbortController fired after config.timeout
    timeout |-> Message("Request timeout - please try again", {}, {}),
    network |-> Message("Network error - please check your internet connection", {}, {}) ]

TransportErrorKeys == DOMAIN TransportErrors

\* the content of the reply: the JSON of a response, or text that is not JSON
NotJson == "notJson"
Contents == ResponseKeys \cup {NotJson}

(***************************************************************************)
(* OpenAIThemeAdapter.parseAIResponse                                      *)
(***************************************************************************)
\* requiredFields of validateColorFormat and validateColorObject
RequiredFields == {"primary", "secondary", "accent"}

\* validateColorFormat: !colors[field] || !isValidHexColor(colors[field])
ColorFormatOk(colors) ==
  \A f \in RequiredFields : Len(colors[f]) > 0 /\ IsValidHexColor(colors[f])

\* the colour values quoted by `Invalid color format for ${field}: ${colors[field]}`
BadColorValues(colors) ==
  { colors[f] : f \in {g \in RequiredFields :
                         ~(Len(colors[g]) > 0 /\ IsValidHexColor(colors[g]))} }

\* parseAIResponse: NoError, or the error it throws
ParseAIResponse(content) ==
  IF content = NotJson
  THEN Message("Failed to parse AI response: ${JSON.parse error}", {PhraseFailedToParse}, {})
  ELSE LET parsed == AIResponses[content]
       IN  IF ~parsed.hasThemeName
           THEN Message("Failed to parse AI response: Invalid response format: missing required fields",
                        {PhraseFailedToParse}, {})
           ELSE IF ~ColorFormatOk(parsed.studyColors)
           THEN Message("Failed to parse AI response: Invalid color format for ${field}: ${colors[field]}",
                        {PhraseFailedToParse}, BadColorValues(parsed.studyColors))
           ELSE IF ~ColorFormatOk(parsed.breakColors)
           THEN Message("Failed to parse AI response: Invalid color format for ${field}: ${colors[field]}",
                        {PhraseFailedToParse}, BadColorValues(parsed.breakColors))
           ELSE NoError

(***************************************************************************)
(* The prompts as the validators see them, computed once                   *)
(***************************************************************************)
PromptValidation == [ p \in PromptIds |-> ValidatePrompt(Prompts[p]) ]

ParseOf == [ content \in Contents |-> ParseAIResponse(content) ]

\* identifySemanticContext for the prompt of the caller and for
\* validation.sanitizedPrompt
RawContextOf == [ p \in PromptIds |-> IdentifySemanticContext(Prompts[p]) ]

SanitizedContextOf ==
  [ p \in PromptIds |->
      IF PromptValidation[p].isValid
      THEN IdentifySemanticContext(PromptValidation[p].sanitizedPrompt[1])
      ELSE NoContext ]

\* validateContextualAppropriateness of every response in every context
AppropriatenessOf ==
  [ ctx \in 0..Len(SEMANTIC_CONTEXTS) |->
      [ key \in ResponseKeys |-> ContextualAppropriateness(ctx, AIResponses[key]) ] ]

\* contextualColorValidator.validateContextualAppropriateness(prompt, aiResponse)
\* as generateTheme calls it, with the prompt of the caller
RawContextualOf(p, key) == AppropriatenessOf[RawContextOf[p]][key]

\* and as the adapter calls it, with validation.sanitizedPrompt
SanitizedContextualOf(p, key) == AppropriatenessOf[SanitizedContextOf[p]][key]

(***************************************************************************)
(* OpenAIThemeAdapter.validateThemeDiversity: NoError, or the error thrown *)
(***************************************************************************)
AdapterValidateThemeDiversity(map, key, p) ==
  LET fallbackValidation == FallbackValidationOf[key]
      sessionValidation  == ValidateSessionUniqueness(map, key)
      originalPrompt     == PromptValidation[p].sanitizedPrompt[1]
      contextualValidation == SanitizedContextualOf(p, key)
  IN  IF fallbackValidation.isSimilar
      THEN [ kind |-> "adapterDiversity",
             error |-> Message("Generated theme is too similar to fallback theme (distance: ${distance}, threshold: 50). Try a more specific or creative prompt.",
                               {PhraseSimilar}, {}) ]
      ELSE IF ~sessionValidation.isUnique
      THEN [ kind |-> "adapterDiversity",
             error |-> Message("Generated theme is too similar to ${conflictCount} recent theme(s) (${similarity}% similarity). ${recommendations}",
                               {PhraseSimilar}, {}) ]
      \* if (originalPrompt): an empty string skips the contextual check
      ELSE IF Len(originalPrompt) > 0 /\ ~contextualValidation.isAppropriate
      THEN [ kind |-> "adapterContextual",
             error |-> Message("Generated theme is not contextually appropriate for \"${originalPrompt}\" (color: ${colorScore}%, animation: ${animationScore}%). ${issues} ${recommendations}",
                               {}, {originalPrompt} \cup contextualValidation.quoted) ]
      ELSE [ kind |-> "none", error |-> NoError ]

(***************************************************************************)
(* AIThemeGenerator.validateThemeDiversity, and the error generateTheme    *)
(* throws when the result is not valid (NoError when it is)                *)
(***************************************************************************)
GeneratorValidateThemeDiversity(map, key) ==
  LET fallbackValidation == FallbackValidationOf[key]
      sessionValidation  == ValidateSessionUniqueness(map, key)
  IN  IF fallbackValidation.isSimilar
      THEN Message("Diversity validation failed: Theme too similar to fallback (distance: ${distance}). Try a more specific or creative prompt Use different color keywords",
                   {PhraseSimilar}, {})
      ELSE IF ~sessionValidation.isUnique
      THEN Message("Diversity validation failed: Theme too similar to recent themes (similarity: ${similarity}). ${recommendations}",
                   {PhraseSimilar}, {})
      ELSE NoError

(***************************************************************************)
(* ThemeProcessor.processAIResponse up to the registration: NoError, or    *)
(* the ThemeProcessingError it throws                                      *)
(***************************************************************************)
\* validateColorObject
ColorObjectOk(colors) ==
  \A f \in RequiredFields : Len(colors[f]) > 0 /\ IsValidHexColor(colors[f])

\* validateAIResponse
ValidateAIResponse ==
  [ key \in ResponseKeys |->
      IF ~AIResponses[key].hasVisualElements
      THEN Message("Failed to process AI theme response: Missing visual elements in AI response",
                   {}, {})
      ELSE IF ~ColorObjectOk(AIResponses[key].studyColors)
              \/ ~ColorObjectOk(AIResponses[key].breakColors)
      THEN Message("Failed to process AI theme response: Missing/Invalid hex color format for ${field} in ${context}",
                   {}, BadColorValues(AIResponses[key].studyColors)
                         \cup BadColorValues(AIResponses[key].breakColors))
      ELSE NoError ]

ProcessAIResponseError(map, key) ==
  LET diversityValidation == ValidateSessionUniqueness(map, key)
      fallbackValidation  == FallbackValidationOf[key]
  IN  IF ValidateAIResponse[key] # NoError
      THEN [ kind |-> "structure", error |-> ValidateAIResponse[key] ]
      ELSE IF ~diversityValidation.isUnique
      THEN [ kind |-> "processorDiversity",
             error |-> Message("Failed to process AI theme response: Generated theme is too similar to ${conflictCount} existing theme(s) (${similarity}% similarity). ${recommendations}",
                               {PhraseSimilar} \cup diversityValidation.recommendations,
                               {}) ]
      ELSE IF fallbackValidation.isSimilar
      THEN [ kind |-> "processorDiversity",
             error |-> Message("Failed to process AI theme response: Generated theme is too similar to fallback theme (distance: ${distance}). Try a more creative prompt.",
                               {PhraseSimilar, PhraseFallbackTheme}, {}) ]
      ELSE [ kind |-> "none", error |-> NoError ]

\* the error of a rejected contextual check in generateTheme
GeneratorContextualError(contextualCheck) ==
  Message("Theme not contextually appropriate: ${issues} ${recommendations}",
          {}, contextualCheck.quoted)

\* the catch of OpenAIThemeAdapter.generateTheme:
\*   new AIServiceError(`Failed to generate theme: ${error.message}`)
AdapterError(error) == [ error EXCEPT !.text = "Failed to generate theme: " \o @ ]

\* the errors generateTheme returns without having entered the retry loop
MsgNoApiKey ==
  Message("No API key configured. Please add your OpenAI API key in settings.", {}, {})
MsgInvalidPrompt == Message("Invalid prompt: ${validation.errors}", {}, {})
\* lastError?.message || ...
MsgAllAttemptsFailed ==
  Message("Theme generation failed after all retry attempts", {}, {})

(***************************************************************************)
(* Bounds of the model                                                     *)
(***************************************************************************)
\* calls of generateTheme in a behaviour
MaxCalls == 2
\* distinct values Date.now() takes in a behaviour, after the first
MaxNow == 2
\* the largest retryAttempts a caller passes
MaxRetryAttempts == 3
\* registrations in a behaviour of the validator driven directly
MaxRegistrations == 12

\* the generateTheme calls that can be in progress together
Requests == {1, 2}

(***************************************************************************)
(* State                                                                   *)
(***************************************************************************)
VARIABLES
  sessionThemes,    \* colorDiversityValidator.sessionThemes, in insertion order
  registered,       \* the number of addThemeToSession calls so far
  generatorThemes,  \* AIThemeGenerator.sessionThemes, in insertion order
  config,           \* AIThemeGenerator.config: apiKey set?, retryAttempts
  storedKey,        \* does getAPIKey() / getDevelopmentAPIKey() give a key?
  now,              \* Date.now()
  calls,            \* generateTheme calls made so far
  req,              \* the generateTheme calls in progress
  testIndex,        \* the next `test-theme-${i}` id of a direct caller
  timerConfig,      \* TimerScreen: config, the TimerConfig in use
  timerState,       \* TimerScreen: timerState
  persistedState,   \* useBackgroundTimer: persistedStateRef.current, << >> if null
  appState,         \* AppState.currentState / document.hidden
  awaySeconds,      \* whole seconds since persistedState.lastUpdateTime
  currentTheme,     \* useEnhancedTheme: currentTheme
  pendingChange,    \* the handleDurationConfigChange call awaiting updateSettings
  persistedSettings,  \* AsyncStorage item '@pomodoro_duration_settings', << >> if none
  cachedSettings,   \* DurationSettingsService.cachedSettings, << >> if null
  settingsCall,     \* the updateSettings call in progress, or how the last one ended
  typed,            \* the prompt in the input field
  analysed,         \* what the services make of the prompt typed
  storedThemes,     \* AsyncStorage item '@pomodoro_generated_themes', << >> if none
  storedVersion,    \* AsyncStorage item '@pomodoro_themes_version', 0 if none
  saving            \* the saveTheme calls in progress

\* the variables of the timer screen
timerVars == << timerConfig, timerState, persistedState, appState, awaySeconds,
                currentTheme, pendingChange >>

\* the variables of the theme generation
generationVars == << sessionThemes, registered, generatorThemes, config, storedKey,
                     now, calls, req, testIndex >>

\* the variables of the DurationSettingsService
settingsVars == << persistedSettings, cachedSettings, settingsCall >>

\* the variables of the prompt input
promptVars == << typed, analysed >>

\* the variables of the generated theme storage
storageVars == << storedThemes, storedVersion, saving >>

vars == << generationVars, timerVars, settingsVars, promptVars, storageVars >>

(***************************************************************************)
(* The timer: types/timer.ts (TimerState, TimerConfig and their helpers).  *)
(* Durations and timeRemaining are seconds.  The timestamps startTime and  *)
(* lastUpdateTime are not kept: the time since lastUpdateTime is           *)
(* awaySeconds.                                                            *)
(***************************************************************************)
\* DEFAULT_TIMER_CONFIG
DEFAULT_TIMER_CONFIG == [ studyDuration |-> 25 * 60, breakDuration |-> 5 * 60 ]

\* DURATION_LIMITS
DURATION_LIMITS ==
  [ MIN_STUDY_DURATION |-> 1 * 60, MAX_STUDY_DURATION |-> 60 * 60,
    MIN_BREAK_DURATION |-> 1 * 60, MAX_BREAK_DURATION |-> 30 * 60 ]

\* createInitialTimerState
CreateInitialTimerState(timerConfiguration) ==
  [ phase |-> "study", timeRemaining |-> timerConfiguration.studyDuration,
    isRunning |-> FALSE, isPaused |-> FALSE, completedPomodoros |-> 0 ]

\* the while loop of synchronizeTimerState
RECURSIVE ElapsePhases(_, _, _, _)
ElapsePhases(newPhase, newTimeRemaining, newCompletedPomodoros, timerConfiguration) ==
  IF newTimeRemaining > 0
  THEN [ phase |-> newPhase, timeRemaining |-> newTimeRemaining,
         completedPomodoros |-> newCompletedPomodoros ]
  ELSE IF newPhase = "study"
  THEN ElapsePhases("break", timerConfiguration.breakDuration + newTimeRemaining,
                    newCompletedPomodoros + 1, timerConfiguration)
  ELSE ElapsePhases("study", timerConfiguration.studyDuration + newTimeRemaining,
                    newCompletedPomodoros, timerConfiguration)

\* a synchronization that takes the elapsed seconds off and never changes
\* the phase
SynchronizeWithoutTransitions(persisted, timerConfiguration, elapsedSeconds) ==
  [ persisted EXCEPT !.timeRemaining = Max2(0, @ - elapsedSeconds) ]

\* synchronizeTimerState, elapsedSeconds being
\* Math.floor((Date.now() - persistedState.lastUpdateTime) / 1000)
SynchronizeTimerState(persisted, timerConfiguration, elapsedSeconds) ==
  IF ~persisted.isRunning \/ persisted.isPaused
  THEN persisted
  ELSE Let(ElapsePhases(persisted.phase, persisted.timeRemaining - elapsedSeconds,
                        persisted.completedPomodoros, timerConfiguration),
           LAMBDA elapsed :
             [ phase |-> elapsed.phase,
               timeRemaining |-> Max2(0, elapsed.timeRemaining),
               isRunning |-> persisted.isRunning,
               isPaused |-> persisted.isPaused,
               completedPomodoros |-> elapsed.completedPomodoros ])

\* a countdown that stops at 0 and leaves the phase alone
CountDownWithoutTransition(prev, timerConfiguration) ==
  [ prev EXCEPT !.timeRemaining = Max2(0, @ - 1) ]

\* the update of timerState the interval of the countdown effect makes
CountDown(prev, timerConfiguration) ==
  IF prev.timeRemaining - 1 <= 0
  THEN IF prev.phase = "study"
       THEN [ prev EXCEPT !.phase = "break",
                          !.timeRemaining = timerConfiguration.breakDuration,
                          !.completedPomodoros = @ + 1 ]
       ELSE [ prev EXCEPT !.phase = "study",
                          !.timeRemaining = timerConfiguration.studyDuration ]
  ELSE [ prev EXCEPT !.timeRemaining = @ - 1 ]

\* The config the listeners of useBackgroundTimer read.  Their effects have
\* the dependencies [onStateUpdate], and setTimerState never changes, so the
\* listeners are those of the first render, when the config of TimerScreen
\* is null and the hook gets { studyDuration: 25 * 60, breakDuration: 5 * 60 }.
ListenerConfig == [ studyDuration |-> 25 * 60, breakDuration |-> 5 * 60 ]

\* DEFAULT_THEME and the themes of the picker
DEFAULT_THEME == "default"
Themes == {"default", "snow"}

\* TimerScreen after initializeTimer has loaded the settings
TimerLoaded(settings) ==
  /\ timerConfig = settings
  /\ timerState = CreateInitialTimerState(settings)
  /\ persistedState = << >>
  /\ appState = "active"
  /\ awaySeconds = 0
  /\ currentTheme = DEFAULT_THEME
  /\ pendingChange = << >>

(***************************************************************************)
(* DurationSettingsService: services/duration-settings-service.ts.         *)
(* A duration is a whole number of seconds, so typeof and isFinite hold.   *)
(* cachedSettings and the stored item are << >> when there is none.        *)
(***************************************************************************)
\* the limits of a study duration, whatever the type
WithinStudyLimits(duration, type) ==
  /\ duration >= DURATION_LIMITS.MIN_STUDY_DURATION
  /\ duration <= DURATION_LIMITS.MAX_STUDY_DURATION

\* validateDuration
ValidateDuration(duration, type) ==
  IF duration <= 0
  THEN FALSE
  ELSE IF type = "study"
  THEN /\ duration >= DURATION_LIMITS.MIN_STUDY_DURATION
       /\ duration <= DURATION_LIMITS.MAX_STUDY_DURATION
  ELSE /\ duration >= DURATION_LIMITS.MIN_BREAK_DURATION
       /\ duration <= DURATION_LIMITS.MAX_BREAK_DURATION

\* no updateSettings call has been made
NoSettingsCall ==
  [ pc |-> "idle", config |-> [ studyDuration |-> << >>, breakDuration |-> << >> ],
    newSettings |-> << >>, persistedBefore |-> << >>, cachedBefore |-> << >>,
    outcome |-> "none", error |-> "" ]

\* the service after getSettings() has loaded the settings: the stored item
\* if there is one, DEFAULT_TIMER_CONFIG if there is none
SettingsLoaded(settings) ==
  /\ persistedSettings =
       IF settings = DEFAULT_TIMER_CONFIG THEN << >> ELSE << settings >>
  /\ cachedSettings = << settings >>
  /\ settingsCall = NoSettingsCall

\* the saveTheme calls that can be in progress together
Savers == {1, 2}

\* no saveTheme call has been made
NoSave ==
  [ pc |-> "idle", theme |-> "", storage |-> {}, before |-> {}, clean |-> TRUE,
    overlapped |-> FALSE, outcome |-> "none" ]

\* a fresh install: no item under either key
NothingSaved ==
  /\ storedThemes = << >>
  /\ storedVersion = 0
  /\ saving = [ s \in Savers |-> NoSave ]

\* the prompt analysis before anything is asked
NotAnalysed == [ validation |-> << >>, guidance |-> << >>, context |-> << >> ]

\* an empty input field
NothingTyped ==
  /\ typed = << >>
  /\ analysed = NotAnalysed

\* DEFAULT_AI_CONFIG.retryAttempts
DEFAULT_RETRY_ATTEMPTS == 3
\* the retryAttempts a generator is constructed with
ConfigRetryAttempts == {1, DEFAULT_RETRY_ATTEMPTS}

\* ThemeGenerationOptions: a field is <<>> when the caller leaves it out
RetryAttemptsOptions == {<< >>, <<0>>, <<1>>, <<MaxRetryAttempts>>}
FallbackOnErrorOptions == {<< >>, <<FALSE>>}
DiversityLevelOptions == {<< >>, <<"high">>, <<"maximum">>}
Options ==
  [ retryAttempts : RetryAttemptsOptions,
    fallbackOnError : FallbackOnErrorOptions,
    diversityLevel : DiversityLevelOptions ]

\* destructuring with a default
OrDefault(option, default) == IF Len(option) = 1 THEN option[1] ELSE default

NoId == [ prefix |-> "", hash |-> <<0, 0>>, timestamp |-> 0 ]
NoTheme == [ id |-> NoId, key |-> "none" ]

\* the ThemeGenerationResult of a call; "kind" tells how the promise settled
Pending ==
  [ kind |-> "pending", success |-> FALSE, usedFallback |-> FALSE,
    theme |-> NoTheme, error |-> NoError, diversityFailures |-> 0 ]

IdleRequest ==
  [ pc |-> "idle", prompt |-> 0, retryAttempts |-> 0, fallbackOnError |-> TRUE,
    callerLevel |-> "standard", diversityLevel |-> "standard", attempt |-> 0,
    aiResponse |-> "none", lastError |-> NoError, failure |-> "none",
    diversityFailures |-> 0, diversityRejections |-> 0, delay |-> 0,
    delayedAt |-> 0, engineCalls |-> 0, levels |-> << >>, result |-> Pending ]

Init ==
  /\ sessionThemes = << >>
  /\ registered = 0
  /\ generatorThemes = << >>
  /\ config \in [ apiKey : BOOLEAN, retryAttempts : ConfigRetryAttempts ]
  /\ storedKey \in BOOLEAN
  /\ now = 0
  /\ calls = 0
  /\ req = [ r \in Requests |-> IdleRequest ]
  /\ testIndex = 0
  /\ TimerLoaded(DEFAULT_TIMER_CONFIG)
  /\ SettingsLoaded(DEFAULT_TIMER_CONFIG)
  /\ NothingTyped
  /\ NothingSaved

(***************************************************************************)
(* Registration in the validator's session map                             *)
(***************************************************************************)
\* this.sessionThemes.set(theme.id, summary): the summary is SummaryOf[key]
Entry(id, key) == [ id |-> id, theme |-> key ]

\* a call that leaves the map as it was
RegisterNothing(map, reg, id, key) == [ map |-> map, reg |-> reg + 1 ]

\* colorDiversityValidator.addThemeToSession(theme), counted
Register(map, reg, id, key) ==
  [ map |-> AddThemeToSession(map, Entry(id, key)), reg |-> reg + 1 ]

\* AIThemeGenerator.addToSessionThemes: the key `${originalPrompt}-${createdAt}`
\* is never empty
AddToSessionThemes(map, prompt, createdAt, key) ==
  LET added == MapSet(map, [ id |-> [ prompt |-> prompt, createdAt |-> createdAt ],
                             theme |-> key ])
  IN  IF Len(added) > SessionLimit THEN Tail(added) ELSE added

(***************************************************************************)
(* generateTheme: the retry loop                                           *)
(***************************************************************************)
\* a loop that sends the level of the caller at every attempt
UnescalatedLevel(attempt, level) == level

\* promptOptions.diversityLevel = attempt === 2 ? 'high' : 'maximum', if attempt > 1
EscalatedLevel(attempt, level) ==
  IF attempt > 1 THEN (IF attempt = 2 THEN "high" ELSE "maximum") ELSE level

\* a try that ends before the contextual check
TryBlockBeforeContextual == {"engine", "diversityCheck", "process"}

\* the statements of generateTheme that are inside the try of the loop
TryBlock == {"engine", "diversityCheck", "process", "contextual"}

\* a loop that stops at the last attempt only
IsLastAttempt(attempt, retryAttempts, error) == attempt = retryAttempts

\* attempt === retryAttempts || this.isNonRetryableError(error)
ShouldBreak(attempt, retryAttempts, error) ==
  attempt = retryAttempts \/ IsNonRetryableError(error)

\* lastError.message.includes('diversity') ? 500 : Math.pow(2, attempt - 1) * 1000
RetryDelay(attempt, error) ==
  IF RawIncludes(error, PhraseDiversity) THEN 500 ELSE (2 ^ (attempt - 1)) * 1000

\* let errorMessage = lastError?.message || '...';
\* if (diversityFailures > 0) errorMessage += ` (${diversityFailures} diversity validation failures)`
\* (the number is the diversityFailures field of the result)
ErrorMessage(lastError, diversityFailures) ==
  LET message == IF lastError # NoError THEN lastError ELSE MsgAllAttemptsFailed
  IN  IF diversityFailures > 0
      THEN [ message EXCEPT
               !.text = @ \o " (${diversityFailures} diversity validation failures)",
               !.has = @ \cup {PhraseDiversity} ]
      ELSE message

\* a fallback result without the error
NoFallbackError(errorMessage) == NoError

\* `AI generation failed: ${errorMessage}. Using fallback theme.`
FallbackError(errorMessage) ==
  [ errorMessage EXCEPT !.text = "AI generation failed: " \o @ \o ". Using fallback theme." ]

\* after the loop: the fallback theme, or the failure
Finalize(rq, map, reg, t) ==
  LET errorMessage == ErrorMessage(rq.lastError, rq.diversityFailures)
  IN  IF rq.fallbackOnError
      THEN \* ThemeProcessor.applyFallbackTheme(prompt)
           LET id == GenerateThemeId(rq.prompt, t)
               r  == Register(map, reg, id, FallbackKey)
           IN  [ rq |-> [ rq EXCEPT !.pc = "done",
                            !.result = [ kind |-> "fallback", success |-> TRUE,
                                         usedFallback |-> TRUE,
                                         theme |-> [ id |-> id, key |-> FallbackKey ],
                                         error |-> FallbackError(errorMessage),
                                         diversityFailures |-> rq.diversityFailures ] ],
                 map |-> r.map, reg |-> r.reg ]
      ELSE [ rq |-> [ rq EXCEPT !.pc = "done",
                        !.result = [ kind |-> "failure", success |-> FALSE,
                                     usedFallback |-> FALSE, theme |-> NoTheme,
                                     error |-> errorMessage,
                                     diversityFailures |-> rq.diversityFailures ] ],
             map |-> map, reg |-> reg ]

\* the failures that are a rejection for diversity reasons: the candidate is
\* too similar to the fallback theme or to a theme of the session
DiversityKinds == {"adapterDiversity", "generatorDiversity", "processorDiversity"}

\* the catch of the loop.  diversityRejections is not a variable of the
\* code: it counts the attempts of the request that ended in a rejection
\* for diversity reasons.
Catch(rq, error, kind, map, reg, t) ==
  LET caught == [ rq EXCEPT !.lastError = error, !.failure = kind,
                    !.diversityFailures =
                       IF IsDiversityRelated(error) THEN @ + 1 ELSE @,
                    !.diversityRejections =
                       IF kind \in DiversityKinds THEN @ + 1 ELSE @ ]
  IN  IF ShouldBreak(rq.attempt, rq.retryAttempts, error)
      THEN Finalize(caught, map, reg, t)
      ELSE [ rq |-> [ caught EXCEPT !.pc = "delay",
                        !.delay = RetryDelay(rq.attempt, error),
                        !.delayedAt = t ],
             map |-> map, reg |-> reg ]

\* an error thrown by a statement of generateTheme: caught if the statement
\* is in the try block, else the promise of generateTheme rejects
Throw(rq, statement, error, kind, map, reg, t) ==
  IF statement \in TryBlock
  THEN Catch(rq, error, kind, map, reg, t)
  ELSE [ rq |-> [ rq EXCEPT !.pc = "done", !.lastError = error, !.failure = kind,
                    !.result = [ kind |-> "rejected", success |-> FALSE,
                                 usedFallback |-> FALSE, theme |-> NoTheme,
                                 error |-> error,
                                 diversityFailures |-> rq.diversityFailures ] ],
         map |-> map, reg |-> reg ]

\* the head of an iteration, up to the request this.aiEngine.generateTheme sends.
\* lastError and delay are not read again before the catch of this iteration
\* assigns them, so the iteration starts without them.
CallEngine(rq, attempt) ==
  LET level == EscalatedLevel(attempt, rq.diversityLevel)
  IN  [ rq EXCEPT !.pc = "fetch", !.attempt = attempt, !.diversityLevel = level,
          !.aiResponse = "none", !.failure = "none", !.lastError = NoError,
          !.delay = 0, !.delayedAt = 0,
          !.engineCalls = @ + 1, !.levels = Append(@, level) ]

\* for (let attempt = 1; attempt <= retryAttempts; attempt++)
Iterate(rq, attempt, map, reg, t) ==
  IF attempt <= rq.retryAttempts
  THEN [ rq |-> CallEngine(rq, attempt), map |-> map, reg |-> reg ]
  ELSE Finalize(rq, map, reg, t)

\* the new state of the call r and of the session map
Settle(r, outcome) ==
  \E o \in {outcome} :
    /\ req' = [ req EXCEPT ![r] = o.rq ]
    /\ sessionThemes' = o.map
    /\ registered' = o.reg

(***************************************************************************)
(* AIThemeGenerator.generateTheme, one action per stretch of code between  *)
(* two awaits                                                              *)
(***************************************************************************)
\* generateTheme(prompt, options) up to `await this.initializeWithStoredKey()`,
\* in a behaviour of at most `limit` calls
GenerateUpTo(r, p, options, limit) ==
  /\ req[r].pc = "idle"
  /\ calls < limit
  /\ calls' = calls + 1
  /\ req' = [ req EXCEPT ![r] =
       [ IdleRequest EXCEPT
           !.pc = "init",
           !.prompt = p,
           !.retryAttempts = OrDefault(options.retryAttempts,
                                       Min2(config.retryAttempts, 2)),
           !.fallbackOnError = OrDefault(options.fallbackOnError, TRUE),
           !.callerLevel = OrDefault(options.diversityLevel, "standard"),
           !.diversityLevel = OrDefault(options.diversityLevel, "standard") ] ]
  /\ UNCHANGED << sessionThemes, registered, generatorThemes, config, storedKey,
                  now, testIndex, timerVars, storageVars,
                  settingsVars, promptVars >>

Generate(r, p, options) == GenerateUpTo(r, p, options, MaxCalls)

\* initializeWithStoredKey resolves; the API key check, validatePrompt and
\* the first iteration of the loop up to the request to the service
Initialized(r) ==
  LET rq     == req[r]
      apiKey == config.apiKey \/ storedKey
      early(message) ==
        [ rq EXCEPT !.pc = "done",
            !.result = [ kind |-> "failure", success |-> FALSE,
                         usedFallback |-> FALSE, theme |-> NoTheme,
                         error |-> message, diversityFailures |-> 0 ] ]
  IN  /\ rq.pc = "init"
      /\ config' = [ config EXCEPT !.apiKey = apiKey ]
      /\ IF ~apiKey
         THEN Settle(r, [ rq |-> early(MsgNoApiKey),
                          map |-> sessionThemes, reg |-> registered ])
         ELSE IF ~PromptValidation[rq.prompt].isValid
         THEN Settle(r, [ rq |-> early(MsgInvalidPrompt),
                          map |-> sessionThemes, reg |-> registered ])
         ELSE Settle(r, Iterate(rq, 1, sessionThemes, registered, now))
      /\ UNCHANGED << generatorThemes, storedKey, now, calls, testIndex, timerVars, storageVars,
                  settingsVars, promptVars >>

\* makeAPICall throws: a status that is not ok, a body that is not JSON or
\* has no content, the timeout, the network
TransportFails(r, e) ==
  /\ req[r].pc = "fetch"
  /\ Settle(r, Throw(req[r], "engine", AdapterError(TransportErrors[e]),
                     "transport", sessionThemes, registered, now))
  /\ UNCHANGED << generatorThemes, config, storedKey, now, calls, testIndex, timerVars, storageVars,
                  settingsVars, promptVars >>

\* makeAPICall returns the content of the reply; parseAIResponse
TransportReturns(r, content) ==
  LET rq == req[r]
  IN  /\ rq.pc = "fetch"
      /\ IF ParseOf[content] # NoError
         THEN Settle(r, Throw(rq, "engine", AdapterError(ParseOf[content]), "parse",
                              sessionThemes, registered, now))
         ELSE Settle(r, [ rq |-> [ rq EXCEPT !.pc = "adapterValidate",
                                     !.aiResponse = content ],
                          map |-> sessionThemes, reg |-> registered ])
      /\ UNCHANGED << generatorThemes, config, storedKey, now, calls, testIndex, timerVars, storageVars,
                  settingsVars, promptVars >>

\* OpenAIThemeAdapter.validateThemeDiversity after its imports resolve
AdapterValidates(r) ==
  LET rq == req[r]
  IN  /\ rq.pc = "adapterValidate"
      /\ \E checked \in {AdapterValidateThemeDiversity(sessionThemes, rq.aiResponse,
                                                        rq.prompt)} :
           IF checked.error # NoError
           THEN Settle(r, Throw(rq, "engine", AdapterError(checked.error), checked.kind,
                                sessionThemes, registered, now))
           ELSE Settle(r, [ rq |-> [ rq EXCEPT !.pc = "generatorValidate" ],
                            map |-> sessionThemes, reg |-> registered ])
      /\ UNCHANGED << generatorThemes, config, storedKey, now, calls, testIndex, timerVars, storageVars,
                  settingsVars, promptVars >>

\* AIThemeGenerator.validateThemeDiversity after its import resolves
GeneratorValidates(r) ==
  LET rq == req[r]
  IN  /\ rq.pc = "generatorValidate"
      /\ \E reason \in {GeneratorValidateThemeDiversity(sessionThemes, rq.aiResponse)} :
           IF reason # NoError
           THEN Settle(r, Throw([ rq EXCEPT !.diversityFailures = @ + 1 ],
                                "diversityCheck", reason, "generatorDiversity",
                                sessionThemes, registered, now))
           ELSE Settle(r, [ rq |-> [ rq EXCEPT !.pc = "process" ],
                            map |-> sessionThemes, reg |-> registered ])
      /\ UNCHANGED << generatorThemes, config, storedKey, now, calls, testIndex, timerVars, storageVars,
                  settingsVars, promptVars >>

\* generateTheme resumes with the diversityCheck:
\* ThemeProcessor.processAIResponse, up to
\* `await this.validateContextualAppropriateness(prompt, aiResponse)`
Processes(r) ==
  LET rq == req[r]
      id == GenerateThemeId(rq.prompt, now)
  IN  /\ rq.pc = "process"
      /\ \E processed \in {ProcessAIResponseError(sessionThemes, rq.aiResponse)} :
           IF processed.error # NoError
           THEN Settle(r, Throw(rq, "process", processed.error, processed.kind,
                                sessionThemes, registered, now))
           ELSE \E added \in {Register(sessionThemes, registered, id, rq.aiResponse)} :
                  Settle(r, [ rq |-> [ rq EXCEPT !.pc = "contextual",
                                         !.result.theme = [ id |-> id,
                                                            key |-> rq.aiResponse ] ],
                              map |-> added.map, reg |-> added.reg ])
      /\ UNCHANGED << generatorThemes, config, storedKey, now, calls, testIndex, timerVars, storageVars,
                  settingsVars, promptVars >>

\* validateContextualAppropriateness resolves; addToSessionThemes and the
\* return of the theme, or the throw
ContextualSettles(r) ==
  LET rq == req[r]
      contextualCheck == RawContextualOf(rq.prompt, rq.aiResponse)
  IN  /\ rq.pc = "contextual"
      /\ IF ~contextualCheck.isAppropriate
         THEN /\ Settle(r, Throw([ rq EXCEPT !.result.theme = NoTheme ], "contextual",
                                 GeneratorContextualError(contextualCheck),
                                 "generatorContextual",
                                 sessionThemes, registered, now))
              /\ UNCHANGED generatorThemes
         ELSE /\ generatorThemes' =
                   AddToSessionThemes(generatorThemes, rq.prompt,
                                      rq.result.theme.id.timestamp, rq.aiResponse)
              /\ Settle(r, [ rq |-> [ rq EXCEPT !.pc = "done",
                                        !.result.kind = "accepted",
                                        !.result.success = TRUE ],
                             map |-> sessionThemes, reg |-> registered ])
      /\ UNCHANGED << config, storedKey, now, calls, testIndex, timerVars, storageVars,
                  settingsVars, promptVars >>

\* this.delay(delay) resolves: the next iteration, up to the request
DelayElapses(r) ==
  LET rq == req[r]
  IN  /\ rq.pc = "delay"
      /\ now > rq.delayedAt
      /\ Settle(r, Iterate(rq, rq.attempt + 1, sessionThemes, registered, now))
      /\ UNCHANGED << generatorThemes, config, storedKey, now, calls, testIndex, timerVars, storageVars,
                  settingsVars, promptVars >>

\* the caller has the result
Returns(r) ==
  /\ req[r].pc = "done"
  /\ req' = [ req EXCEPT ![r] = IdleRequest ]
  /\ UNCHANGED << sessionThemes, registered, generatorThemes, config, storedKey,
                  now, calls, testIndex, timerVars, storageVars,
                  settingsVars, promptVars >>

\* a millisecond (or more) passes
Tick ==
  /\ now < MaxNow
  /\ now' = now + 1
  /\ UNCHANGED << sessionThemes, registered, generatorThemes, config, storedKey,
                  calls, req, testIndex, timerVars, storageVars,
                  settingsVars, promptVars >>

\* one caller at a time
Next ==
  \/ \E p \in PromptIds, options \in Options : Generate(1, p, options)
  \/ Initialized(1)
  \/ \E e \in TransportErrorKeys : TransportFails(1, e)
  \/ \E content \in Contents : TransportReturns(1, content)
  \/ AdapterValidates(1)
  \/ GeneratorValidates(1)
  \/ Processes(1)
  \/ ContextualSettles(1)
  \/ DelayElapses(1)
  \/ Returns(1)
  \/ Tick

Spec == Init /\ [][Next]_vars

(***************************************************************************)
(* The validator and the ThemeProcessor driven directly, as the tests of   *)
(* the validator drive them                                                *)
(***************************************************************************)
\* the id '' of a theme
EmptyId == [ prefix |-> "", hash |-> <<0, 0>>, timestamp |-> 0 ]

\* `test-theme-${i}`
TestThemeId(i) == [ prefix |-> "test-theme-", hash |-> <<0, 0>>, timestamp |-> i ]

\* the theme a direct caller registers
DirectTheme == "sunset"

\* the ids of the themes a direct caller registers
DirectIds == {EmptyId} \cup { TestThemeId(i) : i \in 0..MaxRegistrations }

\* the prompts of the direct calls
DirectPrompts == {1}

InitHistory ==
  /\ sessionThemes = << >>
  /\ registered = 0
  /\ generatorThemes = << >>
  /\ config = [ apiKey |-> FALSE, retryAttempts |-> DEFAULT_RETRY_ATTEMPTS ]
  /\ storedKey = FALSE
  /\ now = 0
  /\ calls = 0
  /\ req = [ r \in Requests |-> IdleRequest ]
  /\ testIndex = 0
  /\ TimerLoaded(DEFAULT_TIMER_CONFIG)
  /\ SettingsLoaded(DEFAULT_TIMER_CONFIG)
  /\ NothingTyped
  /\ NothingSaved

\* validator.addThemeToSession(theme) with the id '', or with the next
\* `test-theme-${i}`
DirectAddThemeToSession(id) ==
  /\ id \in {EmptyId, TestThemeId(testIndex)}
  /\ registered < MaxRegistrations
  /\ \E added \in {Register(sessionThemes, registered, id, DirectTheme)} :
       /\ sessionThemes' = added.map
       /\ registered' = added.reg
  /\ testIndex' = IF id = EmptyId THEN testIndex ELSE testIndex + 1
  /\ UNCHANGED << generatorThemes, config, storedKey, now, calls, req, timerVars, storageVars,
                  settingsVars, promptVars >>

\* validator.clearSession()
ClearSession ==
  /\ sessionThemes # << >>
  /\ sessionThemes' = << >>
  /\ UNCHANGED << registered, generatorThemes, config, storedKey, now, calls, req,
                  testIndex, timerVars, storageVars,
                  settingsVars, promptVars >>

\* ThemeProcessor.processAIResponse(aiResponse, originalPrompt): the theme is
\* registered unless the call throws.  The caller keeps the arguments and the
\* error of its last call in req[1].
DirectProcessAIResponse(p, key) ==
  /\ calls < MaxCalls
  /\ registered < MaxRegistrations
  /\ calls' = calls + 1
  /\ \E processed \in {ProcessAIResponseError(sessionThemes, key)} :
       /\ req' = [ req EXCEPT ![1] = [ IdleRequest EXCEPT !.prompt = p,
                                                         !.aiResponse = key,
                                                         !.lastError = processed.error,
                                                         !.failure = processed.kind ] ]
       /\ IF processed.error # NoError
          THEN UNCHANGED << sessionThemes, registered >>
          ELSE \E added \in {Register(sessionThemes, registered,
                                       GenerateThemeId(p, now), key)} :
                 /\ sessionThemes' = added.map
                 /\ registered' = added.reg
  /\ UNCHANGED << generatorThemes, config, storedKey, now, testIndex, timerVars, storageVars,
                  settingsVars, promptVars >>

\* ThemeProcessor.applyFallbackTheme(originalPrompt)
DirectApplyFallbackTheme(p) ==
  /\ calls < MaxCalls
  /\ registered < MaxRegistrations
  /\ calls' = calls + 1
  /\ \E added \in {Register(sessionThemes, registered,
                             GenerateThemeId(p, now), FallbackKey)} :
       /\ sessionThemes' = added.map
       /\ registered' = added.reg
  /\ UNCHANGED << generatorThemes, config, storedKey, now, req, testIndex, timerVars, storageVars,
                  settingsVars, promptVars >>

NextHistory ==
  \/ \E id \in DirectIds : DirectAddThemeToSession(id)
  \/ ClearSession
  \/ \E p \in DirectPrompts, key \in ResponseKeys : DirectProcessAIResponse(p, key)
  \/ \E p \in DirectPrompts : DirectApplyFallbackTheme(p)
  \/ Tick

SpecHistory == InitHistory /\ [][NextHistory]_vars

(***************************************************************************)
(* Two generateTheme calls in progress together on the one generator       *)
(***************************************************************************)
\* "fire se<a wa<ter" and "calm"
ConcurrentPrompts == {2, 4}

\* generateTheme(prompt) and generateTheme(prompt, {fallbackOnError: false})
ConcurrentOptions ==
  [ retryAttempts : {<< >>}, fallbackOnError : FallbackOnErrorOptions,
    diversityLevel : {<< >>} ]

ConcurrentContents == {"ocean", "sunset"}

InitConcurrent ==
  /\ sessionThemes = << >>
  /\ registered = 0
  /\ generatorThemes = << >>
  /\ config \in [ apiKey : {TRUE}, retryAttempts : ConfigRetryAttempts ]
  /\ storedKey \in BOOLEAN
  /\ now = 0
  /\ calls = 0
  /\ req = [ r \in Requests |-> IdleRequest ]
  /\ testIndex = 0
  /\ TimerLoaded(DEFAULT_TIMER_CONFIG)
  /\ SettingsLoaded(DEFAULT_TIMER_CONFIG)
  /\ NothingTyped
  /\ NothingSaved

NextConcurrent ==
  \/ \E r \in Requests, p \in ConcurrentPrompts, options \in ConcurrentOptions :
       Generate(r, p, options)
  \/ \E r \in Requests : Initialized(r)
  \/ \E r \in Requests : TransportFails(r, "network")
  \/ \E r \in Requests, content \in ConcurrentContents : TransportReturns(r, content)
  \/ \E r \in Requests : AdapterValidates(r)
  \/ \E r \in Requests : GeneratorValidates(r)
  \/ \E r \in Requests : Processes(r)
  \/ \E r \in Requests : ContextualSettles(r)
  \/ \E r \in Requests : DelayElapses(r)
  \/ \E r \in Requests : Returns(r)
  \/ Tick

SpecConcurrent == InitConcurrent /\ [][NextConcurrent]_vars

(***************************************************************************)
(* Generations one after the other on the one generator, with the history  *)
(* of the validator cleared in between (colorDiversityValidator            *)
(* .clearSession(), as scripts/test-theme-diversity.ts calls it)           *)
(***************************************************************************)
\* calls of generateTheme in such a behaviour
MaxCacheCalls == 3

\* "ocean" and "calm"
CachePrompts == {1, 4}

\* generateTheme(prompt, {retryAttempts: 1})
CacheOptions ==
  [ retryAttempts : {<<1>>}, fallbackOnError : {<< >>}, diversityLevel : {<< >>} ]

CacheContents == {"ocean", "sunset"}

InitCache ==
  /\ sessionThemes = << >>
  /\ registered = 0
  /\ generatorThemes = << >>
  /\ config = [ apiKey |-> TRUE, retryAttempts |-> DEFAULT_RETRY_ATTEMPTS ]
  /\ storedKey = FALSE
  /\ now = 0
  /\ calls = 0
  /\ req = [ r \in Requests |-> IdleRequest ]
  /\ testIndex = 0
  /\ TimerLoaded(DEFAULT_TIMER_CONFIG)
  /\ SettingsLoaded(DEFAULT_TIMER_CONFIG)
  /\ NothingTyped
  /\ NothingSaved

NextCache ==
  \/ \E p \in CachePrompts, options \in CacheOptions :
       GenerateUpTo(1, p, options, MaxCacheCalls)
  \/ Initialized(1)
  \/ \E content \in CacheContents : TransportReturns(1, content)
  \/ AdapterValidates(1)
  \/ GeneratorValidates(1)
  \/ Processes(1)
  \/ ContextualSettles(1)
  \/ Returns(1)
  \/ ClearSession
  \/ Tick

SpecCache == InitCache /\ [][NextCache]_vars

(***************************************************************************)
(* Rapid submissions of the one prompt "calm": up to MaxCacheCalls calls,  *)
(* two of them in progress together, each with retryAttempts 1             *)
(***************************************************************************)
RapidPrompts == {4}

NextRapid ==
  \/ \E r \in Requests, p \in RapidPrompts, options \in CacheOptions :
       GenerateUpTo(r, p, options, MaxCacheCalls)
  \/ \E r \in Requests : Initialized(r)
  \/ \E r \in Requests, content \in CacheContents : TransportReturns(r, content)
  \/ \E r \in Requests : AdapterValidates(r)
  \/ \E r \in Requests : GeneratorValidates(r)
  \/ \E r \in Requests : Processes(r)
  \/ \E r \in Requests : ContextualSettles(r)
  \/ \E r \in Requests : Returns(r)
  \/ Tick

SpecRapid == InitCache /\ [][NextRapid]_vars

(***************************************************************************)
(* The timer screen: app/index.tsx (TimerScreen) and                       *)
(* hooks/use-background-timer.ts (useBackgroundTimer)                      *)
(***************************************************************************)
\* completed study sessions in a behaviour
MaxPomodoros == 1

\* the settings durationSettingsService.getSettings() loads at the start
StoredSettings ==
  { DEFAULT_TIMER_CONFIG,
    [ studyDuration |-> DURATION_LIMITS.MIN_STUDY_DURATION,
      breakDuration |-> DURATION_LIMITS.MIN_BREAK_DURATION ] }

\* the settings the user saves in DurationSettings
DurationChoices ==
  { [ studyDuration |-> DURATION_LIMITS.MIN_STUDY_DURATION,
      breakDuration |-> DURATION_LIMITS.MIN_BREAK_DURATION ] }

\* the whole seconds the app stays in the background
BackgroundSeconds == {61, 150}

\* setTimerState(state), and the effect of useBackgroundTimer that follows
\* the render: it copies the state into persistedStateRef when the timer
\* runs, and also when it does not run if the ref holds a state
SetTimerState(state) ==
  /\ timerState' = state
  /\ persistedState' =
       IF (state.isRunning /\ ~state.isPaused) \/ persistedState # << >>
       THEN << state >>
       ELSE persistedState

InitTimer ==
  /\ sessionThemes = << >>
  /\ registered = 0
  /\ generatorThemes = << >>
  /\ config = [ apiKey |-> FALSE, retryAttempts |-> DEFAULT_RETRY_ATTEMPTS ]
  /\ storedKey = FALSE
  /\ now = 0
  /\ calls = 0
  /\ req = [ r \in Requests |-> IdleRequest ]
  /\ testIndex = 0
  /\ \E settings \in StoredSettings : TimerLoaded(settings) /\ SettingsLoaded(settings)
  /\ NothingTyped
  /\ NothingSaved

\* handleStart: the Start / Resume button, shown when the timer does not run
HandleStart ==
  /\ appState = "active"
  /\ ~timerState.isRunning
  /\ SetTimerState([ timerState EXCEPT !.isRunning = TRUE, !.isPaused = FALSE ])
  /\ UNCHANGED << generationVars, storageVars, settingsVars, promptVars,
                  timerConfig, appState, awaySeconds, currentTheme,
                  pendingChange >>

\* handlePause: the Pause button, shown when the timer runs
HandlePause ==
  /\ appState = "active"
  /\ timerState.isRunning
  /\ SetTimerState([ timerState EXCEPT !.isRunning = FALSE, !.isPaused = TRUE ])
  /\ UNCHANGED << generationVars, storageVars, settingsVars, promptVars,
                  timerConfig, appState, awaySeconds, currentTheme,
                  pendingChange >>

\* handleReset
HandleReset ==
  /\ appState = "active"
  /\ SetTimerState(CreateInitialTimerState(timerConfig))
  /\ UNCHANGED << generationVars, storageVars, settingsVars, promptVars,
                  timerConfig, appState, awaySeconds, currentTheme,
                  pendingChange >>

\* handleDurationConfigChange(newConfig), up to
\* `await durationSettingsService.updateSettings(newConfig)`.  The handler
\* is the one of the last render: it has the timerState of that render.
HandleDurationConfigChange(newConfig) ==
  /\ appState = "active"
  /\ pendingChange = << >>
  /\ pendingChange' = << [ newConfig |-> newConfig,
                           isRunning |-> timerState.isRunning,
                           phase |-> timerState.phase ] >>
  /\ UNCHANGED << generationVars, storageVars, settingsVars, promptVars,
                  timerConfig, timerState, persistedState, appState,
                  awaySeconds, currentTheme >>

\* updateSettings has saved the settings: setConfig(newConfig) and, if the
\* timer did not run when the handler was called,
\* setTimerState(prev => ({ ...prev, timeRemaining: newTimeRemaining }))
DurationSettingsSaved ==
  /\ pendingChange # << >>
  /\ pendingChange' = << >>
  /\ timerConfig' = pendingChange[1].newConfig
  /\ IF ~pendingChange[1].isRunning
     THEN SetTimerState([ timerState EXCEPT
                            !.timeRemaining =
                               IF pendingChange[1].phase = "study"
                               THEN pendingChange[1].newConfig.studyDuration
                               ELSE pendingChange[1].newConfig.breakDuration ])
     ELSE UNCHANGED << timerState, persistedState >>
  /\ persistedSettings' = << pendingChange[1].newConfig >>
  /\ cachedSettings' = << pendingChange[1].newConfig >>
  /\ UNCHANGED << generationVars, storageVars, settingsCall, promptVars, appState, awaySeconds,
                  currentTheme >>

\* handleThemeSelect: setTheme(theme)
HandleThemeSelect(theme) ==
  /\ appState = "active"
  /\ theme # currentTheme
  /\ currentTheme' = theme
  /\ UNCHANGED << generationVars, storageVars, settingsVars, promptVars,
                  timerConfig, timerState, persistedState, appState,
                  awaySeconds, pendingChange >>

\* the interval of the countdown effect fires, a second after the effect
\* has set it: timerState.isRunning && timerState.timeRemaining > 0 && config
Countdown ==
  /\ appState = "active"
  /\ timerState.isRunning
  /\ timerState.timeRemaining > 0
  /\ \E next \in {CountDown(timerState, timerConfig)} :
       /\ next.completedPomodoros <= MaxPomodoros
       /\ SetTimerState(next)
  /\ UNCHANGED << generationVars, storageVars, settingsVars, promptVars,
                  timerConfig, appState, awaySeconds, currentTheme,
                  pendingChange >>

\* the app goes to the background (the tab is hidden), where no timer of
\* the page runs, and stays there for some seconds
AppBackgrounds(seconds) ==
  /\ appState = "active"
  /\ appState' = "background"
  /\ awaySeconds' = seconds
  /\ UNCHANGED << generationVars, storageVars, settingsVars, promptVars,
                  timerConfig, timerState, persistedState,
                  currentTheme, pendingChange >>

\* handleAppStateChange('active') / handleVisibilityChange with a visible tab
AppForegrounds ==
  /\ appState = "background"
  /\ appState' = "active"
  /\ awaySeconds' = 0
  /\ IF /\ persistedState # << >>
        /\ persistedState[1].isRunning
        /\ ~persistedState[1].isPaused
     THEN \E synchronizedState \in
               {SynchronizeTimerState(persistedState[1], ListenerConfig, awaySeconds)} :
            /\ synchronizedState.completedPomodoros <= MaxPomodoros
            /\ SetTimerState(synchronizedState)
     ELSE UNCHANGED << timerState, persistedState >>
  /\ UNCHANGED << generationVars, storageVars, settingsVars, promptVars,
                  timerConfig, currentTheme, pendingChange >>

NextTimer ==
  \/ HandleStart
  \/ HandlePause
  \/ HandleReset
  \/ \E newConfig \in DurationChoices : HandleDurationConfigChange(newConfig)
  \/ DurationSettingsSaved
  \/ \E theme \in Themes : HandleThemeSelect(theme)
  \/ Countdown
  \/ \E seconds \in BackgroundSeconds : AppBackgrounds(seconds)
  \/ AppForegrounds

SpecTimer == InitTimer /\ [][NextTimer]_vars

\* setInterval: while the effect keeps setting the interval, it fires
FairSpecTimer == SpecTimer /\ WF_vars(Countdown)

(***************************************************************************)
(* The prompt of the input field, as the services read it:                 *)
(* OpenAIThemeAdapter.validatePrompt, EnhancedPromptBuilder.buildPrompt    *)
(* with validation.sanitizedPrompt, and                                    *)
(* ContextualColorValidator.identifySemanticContext with the prompt of the *)
(* caller.                                                                 *)
(***************************************************************************)
\* the keys of EnhancedPromptBuilder.SEMANTIC_CONTEXT_MAP, in the order of
\* Object.entries
SEMANTIC_CONTEXT_MAP ==
  << <<"o","c","e","a","n">>,
     <<"s","u","n","s","e","t">>,
     <<"f","o","r","e","s","t">>,
     <<"m","o","u","n","t","a","i","n">>,
     <<"f","i","r","e">>,
     <<"s","p","a","c","e">>,
     <<"s","p","r","i","n","g">>,
     <<"w","i","n","t","e","r">> >>

\* the CREATIVE INTERPRETATION GUIDANCE, which names no context
NoKeyword == 0

\* addSemanticContext: the index of the keyword whose SEMANTIC CONTEXT the
\* text quotes, the first key the lower-cased prompt includes
AddSemanticContext(prompt) ==
  Let(ToLowerCase(prompt),
      LAMBDA lowerPrompt :
        Let({ k \in 1..Len(SEMANTIC_CONTEXT_MAP) :
                Includes(lowerPrompt, SEMANTIC_CONTEXT_MAP[k]) },
            LAMBDA matching :
              IF matching = {} THEN NoKeyword
              ELSE CHOOSE k \in matching : \A other \in matching : k <= other))

\* the pieces a prompt is put together from
MaxPieces == 3

Filler == [ i \in 1..25 |-> "x" ]

PromptPieces ==
  { <<" ">>, <<"a">>, Filler, <<"H","A","T","E">>, <<"<",">">>,
    <<"s","e","a">>, <<"f","i","r","e">>, <<"s","n","o","w">>, <<"i","c","e">> }

RECURSIVE PromptsOf(_)
PromptsOf(pieces) ==
  IF pieces = 0 THEN { << >> }
  ELSE Let(PromptsOf(pieces - 1),
           LAMBDA shorter :
             shorter \cup { prompt \o piece : prompt \in shorter, piece \in PromptPieces })

PromptInputs == PromptsOf(MaxPieces)

InitPrompt ==
  /\ sessionThemes = << >>
  /\ registered = 0
  /\ generatorThemes = << >>
  /\ config = [ apiKey |-> FALSE, retryAttempts |-> DEFAULT_RETRY_ATTEMPTS ]
  /\ storedKey = FALSE
  /\ now = 0
  /\ calls = 0
  /\ req = [ r \in Requests |-> IdleRequest ]
  /\ testIndex = 0
  /\ TimerLoaded(DEFAULT_TIMER_CONFIG)
  /\ SettingsLoaded(DEFAULT_TIMER_CONFIG)
  /\ typed \in PromptInputs
  /\ analysed = NotAnalysed
  /\ NothingSaved

\* validatePrompt(prompt)
ValidatesPrompt ==
  /\ analysed.validation = << >>
  /\ analysed' = [ analysed EXCEPT !.validation = << ValidatePrompt(typed) >> ]
  /\ UNCHANGED << generationVars, storageVars, timerVars, settingsVars, typed >>

\* EnhancedPromptBuilder.buildPrompt(validation.sanitizedPrompt!, promptOptions),
\* which generateTheme reaches when the validation is valid
BuildsPrompt ==
  /\ analysed.validation # << >>
  /\ analysed.validation[1].isValid
  /\ analysed.guidance = << >>
  /\ analysed' = [ analysed EXCEPT !.guidance =
                     << AddSemanticContext(analysed.validation[1].sanitizedPrompt[1]) >> ]
  /\ UNCHANGED << generationVars, storageVars, timerVars, settingsVars, typed >>

\* identifySemanticContext(prompt)
IdentifiesContext ==
  /\ analysed.context = << >>
  /\ analysed' = [ analysed EXCEPT !.context = << IdentifySemanticContext(typed) >> ]
  /\ UNCHANGED << generationVars, storageVars, timerVars, settingsVars, typed >>

NextPrompt ==
  \/ ValidatesPrompt
  \/ BuildsPrompt
  \/ IdentifiesContext

SpecPrompt == InitPrompt /\ [][NextPrompt]_vars

(***************************************************************************)
(* DurationSettingsService, one call at a time.  updateSettings is three   *)
(* steps: the call, the end of `await this.getSettings()` with the         *)
(* validation that follows it, and the end of `await                       *)
(* AsyncStorage.setItem(..)`.                                              *)
(***************************************************************************)
\* Partial<TimerConfig>: a field is << >> when the caller leaves it out
StudyDurationInputs ==
  { << >>, << -60 >>, << 0 >>, << 59 >>, << 60 >>, << 3600 >>, << 3601 >> }
BreakDurationInputs == { << >>, << 59 >>, << 60 >>, << 1800 >>, << 1801 >> }
PartialConfigs ==
  [ studyDuration : StudyDurationInputs, breakDuration : BreakDurationInputs ]

\* a service just constructed, over a storage with or without an item
InitSettings ==
  /\ sessionThemes = << >>
  /\ registered = 0
  /\ generatorThemes = << >>
  /\ config = [ apiKey |-> FALSE, retryAttempts |-> DEFAULT_RETRY_ATTEMPTS ]
  /\ storedKey = FALSE
  /\ now = 0
  /\ calls = 0
  /\ req = [ r \in Requests |-> IdleRequest ]
  /\ testIndex = 0
  /\ TimerLoaded(DEFAULT_TIMER_CONFIG)
  /\ persistedSettings \in { << >> } \cup { << settings >> : settings \in StoredSettings }
  /\ cachedSettings = << >>
  /\ settingsCall = NoSettingsCall
  /\ NothingTyped
  /\ NothingSaved

\* updateSettings(config) is called
UpdateSettings(updated) ==
  /\ settingsCall.pc \in {"idle", "done"}
  /\ settingsCall' = [ NoSettingsCall EXCEPT !.pc = "loading",
                                             !.config = updated,
                                             !.persistedBefore = persistedSettings,
                                             !.cachedBefore = cachedSettings ]
  /\ UNCHANGED << generationVars, storageVars, timerVars, promptVars, persistedSettings,
                  cachedSettings >>

\* getSettings(): the cache, or else the stored item if AsyncStorage.getItem
\* gives one, or else DEFAULT_TIMER_CONFIG
GetSettings(readOk) ==
  IF cachedSettings # << >> THEN cachedSettings[1]
  ELSE IF readOk /\ persistedSettings # << >> THEN persistedSettings[1]
  ELSE DEFAULT_TIMER_CONFIG

\* `await this.getSettings()` ends: newSettings, and the two validations
GetSettingsResolves(readOk) ==
  /\ settingsCall.pc = "loading"
  /\ \E currentSettings \in {GetSettings(readOk)} :
       /\ cachedSettings' = << currentSettings >>
       /\ settingsCall' =
            IF /\ settingsCall.config.studyDuration # << >>
               /\ ~ValidateDuration(settingsCall.config.studyDuration[1], "study")
            THEN [ settingsCall EXCEPT
                     !.pc = "done", !.outcome = "thrown",
                     !.error = "Study duration must be between 1 and 60 minutes" ]
            ELSE IF /\ settingsCall.config.breakDuration # << >>
                    /\ ~ValidateDuration(settingsCall.config.breakDuration[1], "break")
            THEN [ settingsCall EXCEPT
                     !.pc = "done", !.outcome = "thrown",
                     !.error = "Break duration must be between 1 and 30 minutes" ]
            ELSE [ settingsCall EXCEPT
                     !.pc = "saving",
                     !.newSettings =
                        << [ studyDuration |->
                               OrDefault(settingsCall.config.studyDuration,
                                         currentSettings.studyDuration),
                             breakDuration |->
                               OrDefault(settingsCall.config.breakDuration,
                                         currentSettings.breakDuration) ] >> ]
  /\ UNCHANGED << generationVars, storageVars, timerVars, promptVars, persistedSettings >>

\* `await AsyncStorage.setItem(..)` ends: the item is written and the cache
\* set, or the write has failed
SettingsWritten(writeOk) ==
  /\ settingsCall.pc = "saving"
  /\ IF writeOk
     THEN /\ persistedSettings' = settingsCall.newSettings
          /\ cachedSettings' = settingsCall.newSettings
          /\ settingsCall' = [ settingsCall EXCEPT !.pc = "done", !.outcome = "saved" ]
     ELSE /\ settingsCall' = [ settingsCall EXCEPT
                                 !.pc = "done", !.outcome = "thrown",
                                 !.error = "Failed to save duration settings" ]
          /\ UNCHANGED << persistedSettings, cachedSettings >>
  /\ UNCHANGED << generationVars, storageVars, timerVars, promptVars >>

\* resetToDefaults(), when removeItem succeeds
ResetToDefaults ==
  /\ settingsCall.pc \in {"idle", "done"}
  /\ persistedSettings' = << >>
  /\ cachedSettings' = << DEFAULT_TIMER_CONFIG >>
  /\ UNCHANGED << generationVars, storageVars, timerVars, promptVars, settingsCall >>

\* clearCache()
ClearCache ==
  /\ settingsCall.pc \in {"idle", "done"}
  /\ cachedSettings' = << >>
  /\ UNCHANGED << generationVars, storageVars, timerVars, promptVars, persistedSettings,
                  settingsCall >>

NextSettings ==
  \/ \E updated \in PartialConfigs : UpdateSettings(updated)
  \/ \E readOk \in BOOLEAN : GetSettingsResolves(readOk)
  \/ \E writeOk \in BOOLEAN : SettingsWritten(writeOk)
  \/ ResetToDefaults
  \/ ClearCache

SpecSettings == InitSettings /\ [][NextSettings]_vars

(***************************************************************************)
(* AsyncStorageThemeStorage: services/generated-theme-storage.ts.          *)
(* saveTheme is one action per stretch of code between two awaits.  The    *)
(* stored schema is the set of the ids of its generatedThemes.             *)
(***************************************************************************)
CURRENT_STORAGE_VERSION == 1

\* the ids of the themes saved
StoredThemeIds == {"theme-a", "theme-b", "theme-c"}

\* saveTheme calls in a behaviour
MaxSaves == 4

\* a fresh install
InitStorage ==
  /\ sessionThemes = << >>
  /\ registered = 0
  /\ generatorThemes = << >>
  /\ config = [ apiKey |-> FALSE, retryAttempts |-> DEFAULT_RETRY_ATTEMPTS ]
  /\ storedKey = FALSE
  /\ now = 0
  /\ calls = 0
  /\ req = [ r \in Requests |-> IdleRequest ]
  /\ testIndex = 0
  /\ TimerLoaded(DEFAULT_TIMER_CONFIG)
  /\ SettingsLoaded(DEFAULT_TIMER_CONFIG)
  /\ NothingTyped
  /\ NothingSaved

\* Object.keys(storage.generatedThemes) of the stored item; none if no item
StoredIds == IF storedThemes = << >> THEN {} ELSE storedThemes[1]

InProgress(save) == save.pc \notin {"idle", "done"}

\* saveTheme(theme) is called, up to `await AsyncStorage.getItem(STORAGE_VERSION_KEY)`
SaveTheme(s, themeId) ==
  /\ ~InProgress(saving[s])
  /\ calls < MaxSaves
  /\ calls' = calls + 1
  /\ saving' =
       [ other \in Savers |->
           IF other = s
           THEN [ NoSave EXCEPT !.pc = "readVersion", !.theme = themeId,
                                !.before = StoredIds,
                                !.overlapped = \E o \in Savers \ {s} : InProgress(saving[o]) ]
           ELSE IF InProgress(saving[other])
           THEN [ saving[other] EXCEPT !.overlapped = TRUE ]
           ELSE saving[other] ]
  /\ UNCHANGED << sessionThemes, registered, generatorThemes, config, storedKey, now,
                  req, testIndex, timerVars, settingsVars, promptVars, storedThemes,
                  storedVersion >>

\* createDefaultStorage() returned by loadStorage, and
\* storage.generatedThemes[theme.id] = theme
ModifyDefault(save) ==
  [ save EXCEPT !.pc = "writeThemes", !.storage = {save.theme}, !.clean = FALSE ]

\* the version is read: the catch of loadStorage if the read throws,
\* migrateStorage if the version is older, the read of the themes otherwise
VersionRead(s, readOk) ==
  /\ saving[s].pc = "readVersion"
  /\ saving' = [ saving EXCEPT ![s] =
       IF ~readOk THEN ModifyDefault(@)
       ELSE IF storedVersion < CURRENT_STORAGE_VERSION
       THEN [ @ EXCEPT !.pc = "migrateThemes", !.clean = FALSE ]
       ELSE [ @ EXCEPT !.pc = "readThemes" ] ]
  /\ UNCHANGED << generationVars, timerVars, settingsVars, promptVars, storedThemes,
                  storedVersion >>

\* migrateStorage: saveStorage(newStorage) has written the themes item, or
\* has thrown into the catch of loadStorage
MigrationThemesWritten(s, writeOk) ==
  /\ saving[s].pc = "migrateThemes"
  /\ IF writeOk
     THEN /\ storedThemes' = << {} >>
          /\ saving' = [ saving EXCEPT ![s].pc = "migrateVersion" ]
     ELSE /\ saving' = [ saving EXCEPT ![s] = ModifyDefault(@) ]
          /\ UNCHANGED storedThemes
  /\ UNCHANGED << generationVars, timerVars, settingsVars, promptVars, storedVersion >>

\* migrateStorage: saveStorage(newStorage) has written the version, or has
\* thrown into the catch of loadStorage
MigrationVersionWritten(s, writeOk) ==
  /\ saving[s].pc = "migrateVersion"
  /\ storedVersion' = IF writeOk THEN CURRENT_STORAGE_VERSION ELSE storedVersion
  /\ saving' = [ saving EXCEPT ![s] = ModifyDefault(@) ]
  /\ UNCHANGED << generationVars, timerVars, settingsVars, promptVars, storedThemes >>

\* the themes item is read, and storage.generatedThemes[theme.id] = theme
ThemesRead(s, readOk) ==
  /\ saving[s].pc = "readThemes"
  /\ saving' = [ saving EXCEPT ![s] =
       IF ~readOk THEN ModifyDefault(@)
       ELSE [ @ EXCEPT !.pc = "writeThemes",
                       !.storage = StoredIds \cup {saving[s].theme} ] ]
  /\ UNCHANGED << generationVars, timerVars, settingsVars, promptVars, storedThemes,
                  storedVersion >>

\* saveStorage(storage): the themes item is written, or saveTheme throws
ThemesWritten(s, writeOk) ==
  /\ saving[s].pc = "writeThemes"
  /\ IF writeOk
     THEN /\ storedThemes' = << saving[s].storage >>
          /\ saving' = [ saving EXCEPT ![s].pc = "writeVersion" ]
     ELSE /\ saving' = [ saving EXCEPT ![s].pc = "done", ![s].outcome = "thrown" ]
          /\ UNCHANGED storedThemes
  /\ UNCHANGED << generationVars, timerVars, settingsVars, promptVars, storedVersion >>

\* saveStorage(storage): the version is written and saveTheme returns, or
\* saveTheme throws
VersionWritten(s, writeOk) ==
  /\ saving[s].pc = "writeVersion"
  /\ storedVersion' = IF writeOk THEN CURRENT_STORAGE_VERSION ELSE storedVersion
  /\ saving' = [ saving EXCEPT ![s].pc = "done",
                               ![s].outcome = IF writeOk THEN "saved" ELSE "thrown" ]
  /\ UNCHANGED << generationVars, timerVars, settingsVars, promptVars, storedThemes >>

NextStorage ==
  \/ \E s \in Savers, themeId \in StoredThemeIds : SaveTheme(s, themeId)
  \/ \E s \in Savers, readOk \in BOOLEAN : VersionRead(s, readOk)
  \/ \E s \in Savers, writeOk \in BOOLEAN : MigrationThemesWritten(s, writeOk)
  \/ \E s \in Savers, writeOk \in BOOLEAN : MigrationVersionWritten(s, writeOk)
  \/ \E s \in Savers, readOk \in BOOLEAN : ThemesRead(s, readOk)
  \/ \E s \in Savers, writeOk \in BOOLEAN : ThemesWritten(s, writeOk)
  \/ \E s \in Savers, writeOk \in BOOLEAN : VersionWritten(s, writeOk)

SpecStorage == InitStorage /\ [][NextStorage]_vars

(***************************************************************************)
(* Properties                                                              *)
(***************************************************************************)
Range(seq) == { seq[i] : i \in 1..Len(seq) }

\* C1: the session history of the validator holds at most 10 entries in
\* every reachable state, whatever is inserted (by processAIResponse, by
\* applyFallbackTheme or by addThemeToSession itself), whatever is cleared
\* and whatever the ids of the themes are.
C1_HistoryWithinCapacity == Len(sessionThemes) <= SessionLimit

\* C2: a theme that processAIResponse registers for generateTheme, hence
\* every theme generateTheme returns that is not the fallback theme, has a
\* similarity of at most 0.7 to every entry the history holds when it is
\* registered: 1 - (sum / 6) / 441.67 <= 0.7, the sum of the six colour
\* distances being in hundredths.
C2_RegisteredDissimilarToHistory ==
  [][\A r \in Requests :
       (req[r].pc = "process" /\ req'[r].pc = "contextual")
         => \A i \in 1..Len(sessionThemes) :
              100 * SummaryDistanceOf[req[r].aiResponse][sessionThemes[i].theme]
                >= 6 * 30 * 44167]_vars

\* generateTheme has returned a theme that was registered, as the newest
\* entry, in a history that held another theme
C2_AcceptedAfterAnother ==
  /\ req[1].pc = "done"
  /\ req[1].result.kind = "accepted"
  /\ Len(sessionThemes) >= 2
  /\ sessionThemes[Len(sessionThemes)] =
       Entry(req[1].result.theme.id, req[1].result.theme.key)

\* C3: every theme generateTheme returns that is not the fallback theme, and
\* every theme processAIResponse has registered, is at a distance of at
\* least 50 from the fallback palette: the average over the study and the
\* break colours of 0.5 primary + 0.3 secondary + 0.2 accent (here times
\* 2 * 10 * 100).
C3_AcceptedFarFromFallback ==
  /\ \A r \in Requests :
       req[r].result.kind = "accepted"
         => FallbackValidationOf[req[r].result.theme.key].distance >= 50 * 2000
  /\ \A i \in 1..Len(sessionThemes) :
       sessionThemes[i].theme # FallbackKey
         => FallbackValidationOf[sessionThemes[i].theme].distance >= 50 * 2000

\* generateTheme has returned a theme of the service
C3_Accepted ==
  /\ req[1].pc = "done"
  /\ req[1].result.kind = "accepted"
  /\ req[1].result.theme.key \in ResponseKeys

\* C4: an attempt whose candidate the contextual check of generateTheme
\* rejects leaves no entry for that candidate in the session history.
C4_RejectedCandidateNotRegistered ==
  [][\A r \in Requests :
       ( /\ req[r].pc = "contextual"
         /\ req'[r].pc # "contextual"
         /\ req'[r].failure = "generatorContextual" )
         => Entry(req[r].result.theme.id, req[r].aiResponse)
              \notin Range(sessionThemes')]_vars

\* C5: a generateTheme call invokes the engine at most 2 times, whatever
\* retryAttempts the caller passes and the service is configured with.
C5_AtMostTwoEngineCalls == \A r \in Requests : req[r].engineCalls <= 2

\* C6: the promise of generateTheme never rejects; it resolves to an accepted
\* theme (success), to the fallback theme (success, usedFallback, an error)
\* or to a failure (no success, an error).
C6_AlwaysResolves ==
  \A r \in Requests :
    LET result == req[r].result
    IN  /\ result.kind # "rejected"
        /\ req[r].pc = "done" =>
             \/ /\ result.kind = "accepted"
                /\ result.success /\ ~result.usedFallback
                /\ result.theme.key \in ResponseKeys
             \/ /\ result.kind = "fallback"
                /\ result.success /\ result.usedFallback
                /\ result.theme.key = FallbackKey
                /\ result.error # NoError
             \/ /\ result.kind = "failure"
                /\ ~result.success /\ ~result.usedFallback
                /\ result.theme = NoTheme
                /\ result.error # NoError

\* a call has resolved after the contextual check of generateTheme threw
C6_ResolvedAfterThrow ==
  /\ req[1].pc = "done"
  /\ req[1].failure = "generatorContextual"
  /\ req[1].result.kind \in {"fallback", "failure"}

\* C7: once an attempt has failed with an error that isNonRetryableError
\* recognises ('invalid api key', 'invalid prompt', 'failed to parse',
\* 'forbidden', 'invalid response from ai service'), the request is over: it
\* neither waits for a retry nor calls the engine again.
C7_NonRetryableAborts ==
  \A r \in Requests :
    IsNonRetryableError(req[r].lastError) => req[r].pc = "done"

\* a request is over after one engine call, with attempts left
C7_AbortedWithAttemptsLeft ==
  /\ req[1].pc = "done"
  /\ IsNonRetryableError(req[1].lastError)
  /\ req[1].engineCalls = 1
  /\ req[1].attempt < req[1].retryAttempts

\* the failures that are a diversity or a contextual rejection
RejectionKinds ==
  { "adapterDiversity", "adapterContextual", "generatorDiversity",
    "processorDiversity", "generatorContextual" }

\* C8: an attempt that fails with a diversity or a contextual rejection while
\* attempts remain does not end the request.
C8_RejectionRetried ==
  \A r \in Requests :
    (req[r].failure \in RejectionKinds /\ req[r].attempt < req[r].retryAttempts)
      => req[r].pc # "done"

\* C9: with generateTheme calls in progress together, the session history
\* never exceeds its capacity, and every change of it appends the new entry
\* after the entries it held, which keep their order, the oldest alone
\* leaving.
C9_HistorySerialized ==
  [][/\ Len(sessionThemes') <= SessionLimit
     /\ sessionThemes' # sessionThemes =>
          \E evicted \in {0, 1} :
            /\ evicted <= Len(sessionThemes)
            /\ Len(sessionThemes') = Len(sessionThemes) - evicted + 1
            /\ SubSeq(sessionThemes', 1, Len(sessionThemes') - 1)
                 = SubSeq(sessionThemes, evicted + 1, Len(sessionThemes))]_vars

\* C10: the first engine call of a request carries the diversityLevel of the
\* caller ('standard' by default), the second 'high', a later one 'maximum'.
C10_LevelsEscalate ==
  \A r \in Requests :
    \A i \in 1..Len(req[r].levels) :
      req[r].levels[i] = IF i = 1 THEN req[r].callerLevel
                         ELSE IF i = 2 THEN "high" ELSE "maximum"

\* a request has made three engine calls
C10_ThreeEngineCalls ==
  /\ Len(req[1].levels) = 3
  /\ req[1].engineCalls = 3

\* C11: a request that waits for its next attempt waits 500 ms when the
\* attempt that failed was a diversity or a contextual rejection, and
\* 2^(attempt-1) * 1000 ms after every other failure.
C11_BackoffByFailure ==
  \A r \in Requests :
    req[r].pc = "delay" =>
      req[r].delay = IF req[r].failure \in RejectionKinds
                     THEN 500
                     ELSE (2 ^ (req[r].attempt - 1)) * 1000

C13_FailureCountsDiversityRejections ==
  \A r \in Requests :
    (req[r].pc = "done" /\ req[r].lastError # NoError /\ ~req[r].fallbackOnError)
      => LET result == req[r].result
         IN  /\ ~result.success
             /\ result.diversityFailures = req[r].diversityRejections
             /\ result.error =
                  ErrorMessage(req[r].lastError, req[r].diversityRejections)

\* the prompts that are empty or longer than 50 characters once trimmed, or
\* that contain a word of the denylist
FailsPromptValidation ==
  [ p \in PromptIds |->
      \/ Len(Trim(Prompts[p])) = 0
      \/ Len(Trim(Prompts[p])) > MaxPromptLength
      \/ \E i \in 1..Len(inappropriateWords) :
           Includes(ToLowerCase(Prompts[p]), inappropriateWords[i]) ]

\* C14: a call whose prompt fails the validation never calls the engine and
\* no step of it changes the session history (of the validator or of the
\* generator).
C14_InvalidPromptNoEngineCall ==
  [][\A r \in Requests :
       (req[r].pc # "idle" /\ FailsPromptValidation[req[r].prompt])
         => /\ req'[r].engineCalls = 0
            /\ req'[r].pc \in {"init", "done", "idle"}
            /\ sessionThemes' = sessionThemes
            /\ generatorThemes' = generatorThemes]_vars

\* a call with an invalid prompt has resolved with the validation error
\* while the history holds a theme
C14_InvalidPromptRefused ==
  /\ req[1].pc = "done"
  /\ FailsPromptValidation[req[1].prompt]
  /\ req[1].result.error = MsgInvalidPrompt
  /\ Len(sessionThemes) > 0

\* C15: an insertion of a new theme into a history of 10 entries removes
\* the oldest entry and nothing else: the history then holds the 9 newer
\* entries, in their order, followed by the new theme.
C15_EvictsOldestOnly ==
  [][( /\ registered' = registered + 1
       /\ Len(sessionThemes) = SessionLimit
       /\ Len(sessionThemes') > 0
       /\ \A i \in 1..Len(sessionThemes) :
            sessionThemes[i].id # sessionThemes'[Len(sessionThemes')].id )
       => sessionThemes' =
            Append(Tail(sessionThemes), sessionThemes'[Len(sessionThemes')])]_vars

\* '#' followed by six hexadecimal digits
IsSixDigitHex(color) ==
  /\ Len(color) = 7
  /\ color[1] = "#"
  /\ \A i \in 2..7 : IsHexDigit(color[i])

\* C16: the primary, secondary and accent colours of the study and of the
\* break phase of every theme generateTheme has accepted are 6-digit hex
\* strings.
C16_AcceptedColorsSixDigitHex ==
  \A r \in Requests :
    req[r].result.kind = "accepted" =>
      \A phase \in {"studyColors", "breakColors"}, field \in RequiredFields :
        IsSixDigitHex(ThemeColorsOf(req[r].result.theme.key)[phase][field])

\* the errors of a candidate with a missing or malformed colour field, as
\* parseAIResponse and processAIResponse word them
ColorFieldErrors ==
  { "Failed to generate theme: Failed to parse AI response: Invalid color format for ${field}: ${colors[field]}",
    "Failed to process AI theme response: Missing/Invalid hex color format for ${field} in ${context}" }

\* C17: once an attempt has found a missing or malformed colour field in
\* the candidate, the request is over: it neither waits for a retry nor
\* calls the engine again.
C17_ColorFieldFailureEndsRequest ==
  \A r \in Requests :
    req[r].lastError.text \in ColorFieldErrors => req[r].pc = "done"

\* a request is over after the one engine call whose candidate lacked a
\* colour, with attempts left
C17_EndedOnMalformedCandidate ==
  /\ req[1].pc = "done"
  /\ req[1].lastError.text \in ColorFieldErrors
  /\ req[1].engineCalls = 1
  /\ req[1].attempt < req[1].retryAttempts

\* n one-second ticks of the countdown in the foreground, a phase at a
\* time: the ticks that do not end the phase take a second each off
\* timeRemaining, and the tick that ends it is the one CountDown makes of a
\* state with a second left
RECURSIVE ForegroundTicks(_, _, _)
ForegroundTicks(state, timerConfiguration, n) ==
  IF n = 0 \/ n < state.timeRemaining
  THEN [ state EXCEPT !.timeRemaining = @ - n ]
  ELSE Let(CountDown([ state EXCEPT !.timeRemaining = 1 ], timerConfiguration),
           LAMBDA next : ForegroundTicks(next, timerConfiguration,
                                         n - Max2(1, state.timeRemaining)))

\* C18: when the app comes back to the foreground after awaySeconds seconds
\* with the timer running, the phase, the timeRemaining and the
\* completedPomodoros are those awaySeconds ticks of the countdown give
\* with the durations now configured.
C18_ForegroundMatchesTicks ==
  [][(appState = "background" /\ appState' = "active" /\ timerState.isRunning)
       => \E ticked \in {ForegroundTicks(timerState, timerConfig, awaySeconds)} :
            /\ timerState'.phase = ticked.phase
            /\ timerState'.timeRemaining = ticked.timeRemaining
            /\ timerState'.completedPomodoros = ticked.completedPomodoros]_vars

\* C19: a step that leaves the timer paused (a change of the durations or
\* of the theme, the app going to the background or coming back) leaves
\* its timeRemaining and its phase as they were.
C19_PausedTimerKeepsTime ==
  [][(timerState.isPaused /\ timerState'.isPaused)
       => /\ timerState'.timeRemaining = timerState.timeRemaining
          /\ timerState'.phase = timerState.phase]_vars

\* a tick of the countdown: the timer runs in the foreground before and
\* after the step, and its state changes without a save of the settings
C20_Ticks ==
  /\ appState = "active" /\ appState' = "active"
  /\ pendingChange' = pendingChange
  /\ timerState.isRunning /\ timerState'.isRunning
  /\ timerState' # timerState

C21_FallbackRegistered ==
  [][\A r \in Requests :
       (req[r].result.kind # "fallback" /\ req'[r].result.kind = "fallback")
         => \E check \in {ValidateSessionUniqueness(sessionThemes', "fallbackLike")} :
              /\ Entry(req'[r].result.theme.id, FallbackKey) \in Range(sessionThemes')
              /\ ~check.isUnique
              /\ req'[r].result.theme.id \in Range(check.conflictingThemes)]_vars

\* generateTheme has resolved with the fallback theme, which the history
\* holds after a theme accepted before
C21_FallbackAfterAccepted ==
  /\ req[1].pc = "done"
  /\ req[1].result.kind = "fallback"
  /\ Len(sessionThemes) >= 2
  /\ sessionThemes[1].theme \in ResponseKeys
  /\ sessionThemes[Len(sessionThemes)] = Entry(req[1].result.theme.id, FallbackKey)

\* the entry addToSessionThemes makes for the theme a call has accepted
AcceptedEntry(rq) ==
  [ id |-> [ prompt |-> rq.prompt, createdAt |-> rq.result.theme.id.timestamp ],
    theme |-> rq.result.theme.key ]

\* C22: the recent-themes cache of the generator never holds more than 10
\* entries; when a call resolves with an accepted theme, the newest entry of
\* the cache is the summary of that theme; and no entry but the oldest
\* leaves the cache.
C22_CacheNewestFirstOut ==
  [][/\ Len(generatorThemes') <= SessionLimit
     /\ \A r \in Requests :
          (req[r].result.kind # "accepted" /\ req'[r].result.kind = "accepted")
            => /\ Len(generatorThemes') > 0
               /\ generatorThemes'[Len(generatorThemes')] = AcceptedEntry(req'[r])
     /\ \A i \in 2..Len(generatorThemes) :
          generatorThemes[i] \in Range(generatorThemes')]_vars

\* the attempts whose candidate has come back from the service and is not
\* registered yet
CandidateInHand == {"adapterValidate", "generatorValidate", "process"}

\* C23: when the generation that follows an accepted theme receives a
\* candidate with the colours of that theme, validateSessionUniqueness of
\* the candidate is not unique and names the id of the accepted theme among
\* the conflicting ids, and the call does not resolve with that candidate.
C23_IdenticalCandidateRejected ==
  /\ [](\A r \in Requests : \A i \in 1..Len(generatorThemes) :
          ( /\ req[r].pc \in CandidateInHand
            /\ req[r].aiResponse = generatorThemes[i].theme )
            => \E check \in {ValidateSessionUniqueness(sessionThemes, req[r].aiResponse)} :
                 /\ ~check.isUnique
                 /\ GenerateThemeId(generatorThemes[i].id.prompt,
                                    generatorThemes[i].id.createdAt)
                      \in Range(check.conflictingThemes))
  /\ [][\A r \in Requests : \A i \in 1..Len(generatorThemes) :
          (req[r].result.kind # "accepted" /\ req'[r].result.kind = "accepted")
            => req'[r].result.theme.key # generatorThemes[i].theme]_vars

\* the call after an accepted theme has given up on a candidate with the
\* colours of that theme
C23_SecondIdenticalRefused ==
  /\ Len(generatorThemes) = 1
  /\ req[1].pc \in {"delay", "done"}
  /\ req[1].aiResponse = generatorThemes[1].theme
  /\ req[1].failure = "adapterDiversity"

\* C24: for a candidate (an AIThemeResponse, with its visualElements) whose
\* six colours are those of the fallback palette, validateAgainstFallback
\* gives isSimilar; a processAIResponse call with it throws an error whose
\* message contains "fallback theme" and changes nothing in the session
\* history, which never holds an entry for such a candidate.
C24_FallbackPaletteNotAssembled ==
  /\ [](\A key \in ResponseKeys :
          ThemeColorsOf(key) = FallbackThemeColors
            => /\ FallbackValidationOf[key].isSimilar
               /\ \A i \in 1..Len(sessionThemes) : sessionThemes[i].theme # key
               /\ req[1].aiResponse = key
                    => /\ req[1].lastError # NoError
                       /\ RawIncludes(req[1].lastError, PhraseFallbackTheme))
  /\ [][(req' # req /\ ThemeColorsOf(req'[1].aiResponse) = FallbackThemeColors)
          => UNCHANGED << sessionThemes, registered >>]_vars

\* processAIResponse has thrown for a candidate with the colours of the
\* fallback palette while the history held a theme
C24_FallbackPaletteRefused ==
  /\ req[1].aiResponse = "fallbackLike"
  /\ req[1].failure = "processorDiversity"
  /\ Len(sessionThemes) > 0
  /\ calls = 2

\* the characters from the first to the last one that is not a space
TrimmedLength(s) ==
  Let({ i \in 1..Len(s) : s[i] # " " },
      LAMBDA inked : IF inked = {} THEN 0
                     ELSE (CHOOSE i \in inked : \A j \in inked : j <= i)
                          - (CHOOSE i \in inked : \A j \in inked : i <= j) + 1)

\* C25: validatePrompt reports a prompt as valid exactly when its trimmed
\* length is between 1 and 50 characters and its lower-cased text includes
\* none of the denylisted words; it returns a sanitizedPrompt exactly when
\* the prompt is valid.
C25_ValidIffLengthAndDenylist ==
  analysed.validation # << >>
    => \E validation \in {analysed.validation[1]} :
         /\ validation.isValid
              <=> /\ TrimmedLength(typed) >= 1
                  /\ TrimmedLength(typed) <= 50
                  /\ \A w \in 1..Len(inappropriateWords) :
                       ~Includes(ToLowerCase(typed), inappropriateWords[w])
         /\ validation.sanitizedPrompt # << >> <=> validation.isValid

\* a prompt of 51 characters, 50 of them after the trim, has been found valid
C25_FiftyAfterTrimValid ==
  /\ analysed.validation # << >>
  /\ analysed.validation[1].isValid
  /\ Len(typed) = 51

\* C26: the context identifySemanticContext resolves for a prompt is the
\* declared context with the most keywords included in the lower-cased
\* prompt, the first in declaration order among those with the most; it is
\* null exactly when no context has a keyword the prompt includes.
C26_ContextWithMostMatches ==
  analysed.context # << >>
    => \E resolved \in {analysed.context[1]} :
         \E matches \in {[ c \in 1..Len(SEMANTIC_CONTEXTS) |->
                            KeywordMatches(ToLowerCase(typed), SEMANTIC_CONTEXTS[c]) ]} :
           /\ resolved = NoContext <=> \A c \in 1..Len(SEMANTIC_CONTEXTS) : matches[c] = 0
           /\ resolved # NoContext
                => /\ resolved \in 1..Len(SEMANTIC_CONTEXTS)
                   /\ \A c \in 1..Len(SEMANTIC_CONTEXTS) :
                        /\ matches[c] <= matches[resolved]
                        /\ c < resolved => matches[c] < matches[resolved]

\* a later context with two matches has been preferred to an earlier one
\* with one match
C26_LaterContextWithMoreMatches ==
  /\ analysed.context # << >>
  /\ analysed.context[1] # NoContext
  /\ \E c \in 1..(analysed.context[1] - 1) :
       KeywordMatches(ToLowerCase(typed), SEMANTIC_CONTEXTS[c]) = 1
  /\ KeywordMatches(ToLowerCase(typed), SEMANTIC_CONTEXTS[analysed.context[1]]) = 2

\* the key of SEMANTIC_CONTEXT_MAP a context of SEMANTIC_CONTEXTS goes by
NameOf ==
  [ ocean |-> <<"o","c","e","a","n">>, sunset |-> <<"s","u","n","s","e","t">>,
    forest |-> <<"f","o","r","e","s","t">>,
    mountain |-> <<"m","o","u","n","t","a","i","n">>,
    fire |-> <<"f","i","r","e">>, space |-> <<"s","p","a","c","e">>,
    spring |-> <<"s","p","r","i","n","g">>, winter |-> <<"w","i","n","t","e","r">> ]

\* C30: for every prompt, the context whose guidance buildPrompt embeds in
\* the user text is the context identifySemanticContext resolves for the
\* contextual validation, and the text embeds no context guidance exactly
\* when identifySemanticContext resolves none.
C30_ComposerAndValidatorAgree ==
  (analysed.guidance # << >> /\ analysed.context # << >>)
    => /\ analysed.guidance[1] = NoKeyword <=> analysed.context[1] = NoContext
       /\ (analysed.guidance[1] # NoKeyword /\ analysed.context[1] # NoContext)
            => SEMANTIC_CONTEXT_MAP[analysed.guidance[1]]
                 = NameOf[SEMANTIC_CONTEXTS[analysed.context[1]].name]

\* a field of the update is left out or lies between lo and hi minutes
LeftOutOrWithin(field, lo, hi) ==
  field = << >> \/ (field[1] >= lo * 60 /\ field[1] <= hi * 60)

\* an updateSettings call ends by throwing
UpdateThrows == settingsCall.pc # "done" /\ settingsCall'.pc = "done"
                  /\ settingsCall'.outcome = "thrown"

\* C27, the loading of an empty cache set apart: updateSettings passes a
\* study duration exactly when it is between 1 and 60 minutes and a break
\* duration exactly when it is
\* between 1 and 30 minutes; an update with a duration outside its range
\* throws, and an update that throws leaves the stored settings as they were
\* and the cached settings as they were if there were any: where nothing was
\* cached, the cache holds afterwards what getSettings has loaded, the
\* stored settings or the defaults.
C27_RejectedUpdateKeepsStoredSettings ==
  [][ /\ (settingsCall.pc = "loading" /\ settingsCall' # settingsCall)
        => /\ settingsCall'.pc = "saving"
                <=> /\ LeftOutOrWithin(settingsCall.config.studyDuration, 1, 60)
                    /\ LeftOutOrWithin(settingsCall.config.breakDuration, 1, 30)
           /\ settingsCall'.pc # "saving" => UpdateThrows
      /\ UpdateThrows
        => /\ persistedSettings' = settingsCall.persistedBefore
           /\ settingsCall.cachedBefore # << >>
                => cachedSettings' = settingsCall.cachedBefore
           /\ settingsCall.cachedBefore = << >>
                => cachedSettings' \in {settingsCall.persistedBefore, << DEFAULT_TIMER_CONFIG >>}
                     \ { << >> } ]_vars

\* C27: a rejected update throws and leaves both the persisted and the
\* cached settings unchanged.
C27_RejectedUpdateKeepsAllSettings ==
  [][ UpdateThrows
        => /\ persistedSettings' = settingsCall.persistedBefore
           /\ cachedSettings' = settingsCall.cachedBefore ]_vars

\* an update with a study duration of 1 minute and a break duration of 1801
\* seconds has thrown, over stored and cached settings
C27_BreakRejectedOverStoredSettings ==
  /\ settingsCall.pc = "done"
  /\ settingsCall.outcome = "thrown"
  /\ settingsCall.config = [ studyDuration |-> << 60 >>, breakDuration |-> << 1801 >> ]
  /\ settingsCall.persistedBefore # << >>
  /\ settingsCall.cachedBefore # << >>

\* the error of an engine call that the service has answered with status 429
RateLimited == AdapterError(TransportErrors.status429)

\* C28: when an engine call of generateTheme fails on the rate limit of the
\* API, the call does not resolve with the fallback theme (the request
\* waits for a retry and the caller is told of the wait).
C28_RateLimitedNotFallback ==
  \A r \in Requests :
    (req[r].pc = "done" /\ req[r].lastError = RateLimited)
      => req[r].result.kind # "fallback"

\* C29: of two generateTheme calls in progress together whose candidates
\* have a similarity above 0.7 to each other (1 - (sum / 6) / 441.67 > 0.7),
\* at most one is accepted.
C29_AtMostOneOfSimilarAccepted ==
  \A r1, r2 \in Requests :
    ( /\ r1 # r2
      /\ req[r1].result.kind = "accepted"
      /\ req[r2].result.kind = "accepted" )
      => 100 * SummaryDistanceOf[req[r1].result.theme.key][req[r2].result.theme.key]
           >= 6 * 30 * 44167

\* C31: a generateTheme call with a valid prompt and an API key does not end
\* with the fallback theme or with a failure before the engine has been
\* called once, whatever retryAttempts the caller passes.
C31_EngineCalledBeforeGivingUp ==
  \A r \in Requests :
    ( /\ req[r].pc = "done"
      /\ config.apiKey
      /\ PromptValidation[req[r].prompt].isValid
      /\ req[r].result.kind \in {"fallback", "failure"} )
      => req[r].engineCalls >= 1

\* standard < high < maximum
LevelRank == [ standard |-> 1, high |-> 2, maximum |-> 3 ]

\* C32: within one generateTheme call the diversity level sent to the engine
\* never decreases from one attempt to the next, in the order
\* standard < high < maximum, whatever level the caller starts with.
C32_LevelNeverDecreases ==
  \A r \in Requests :
    \A i \in 1..(Len(req[r].levels) - 1) :
      LevelRank[req[r].levels[i]] <= LevelRank[req[r].levels[i + 1]]

\* C33: a theme that processAIResponse or applyFallbackTheme registers gets
\* an id that no entry of the session history has at that moment, also when
\* the themes are made for the same prompt in the same millisecond.
C33_RegisteredIdIsNew ==
  [][\A r \in Requests :
       ( /\ registered' > registered
         /\ req'[r].result.theme # req[r].result.theme
         /\ req'[r].result.theme # NoTheme )
         => \A i \in 1..Len(sessionThemes) :
              sessionThemes[i].id # req'[r].result.theme.id]_vars

\* a saveTheme call that has returned without having met a failed read or a
\* migration
SavedCleanly(save) == save.pc = "done" /\ save.outcome = "saved" /\ save.clean

\* C34: when two saveTheme calls for themes with different ids have run
\* together and both have returned, both themes are in the stored item.
C34_ConcurrentSavesBothStored ==
  \A s1, s2 \in Savers :
    ( /\ s1 # s2
      /\ SavedCleanly(saving[s1]) /\ saving[s1].overlapped
      /\ SavedCleanly(saving[s2]) /\ saving[s2].overlapped
      /\ saving[s1].theme # saving[s2].theme )
      => {saving[s1].theme, saving[s2].theme} \subseteq StoredIds

\* C35: a saveTheme call that returns, no other call having run with it,
\* leaves in the stored item every theme that was stored when it was called
\* (and its own theme), also when a read has failed or the version key was
\* missing during the call.
C35_SaveKeepsOtherThemes ==
  [][\A s \in Savers :
       ( /\ saving[s].pc # "done"
         /\ saving'[s].pc = "done"
         /\ saving'[s].outcome = "saved"
         /\ ~saving'[s].overlapped )
         => /\ saving'[s].before \subseteq IF storedThemes' = << >> THEN {}
                                          ELSE storedThemes'[1]
            /\ storedThemes' # << >>
            /\ saving'[s].theme \in storedThemes'[1]]_vars

(***************************************************************************)
(* synchronizeTimerState on its own: a running persisted state, a          *)
(* configuration within DURATION_LIMITS and the seconds since              *)
(* lastUpdateTime.  timeRemaining of the persisted state does not depend   *)
(* on the configuration: handleDurationConfigChange leaves it alone when   *)
(* the timer runs, and the listeners pass their own configuration.         *)
(***************************************************************************)
\* the configurations within DURATION_LIMITS
LimitConfigs ==
  { DEFAULT_TIMER_CONFIG,
    [ studyDuration |-> DURATION_LIMITS.MIN_STUDY_DURATION,
      breakDuration |-> DURATION_LIMITS.MIN_BREAK_DURATION ],
    [ studyDuration |-> DURATION_LIMITS.MAX_STUDY_DURATION,
      breakDuration |-> DURATION_LIMITS.MAX_BREAK_DURATION ],
    [ studyDuration |-> DURATION_LIMITS.MIN_STUDY_DURATION,
      breakDuration |-> DURATION_LIMITS.MAX_BREAK_DURATION ] }

\* timeRemaining of the persisted state
PersistedSeconds == {1, 60, 299, 1500, 3600}

\* Math.floor((Date.now() - persistedState.lastUpdateTime) / 1000)
ElapsedSeconds == {0, 1, 60, 61, 150, 400, 1500}

\* the persisted states of a running timer
RunningStates ==
  { [ phase |-> phase, timeRemaining |-> seconds, isRunning |-> TRUE,
      isPaused |-> FALSE, completedPomodoros |-> completed ] :
      phase \in {"study", "break"}, seconds \in PersistedSeconds,
      completed \in {0, 2} }

InitSynchronize ==
  /\ sessionThemes = << >>
  /\ registered = 0
  /\ generatorThemes = << >>
  /\ config = [ apiKey |-> FALSE, retryAttempts |-> DEFAULT_RETRY_ATTEMPTS ]
  /\ storedKey = FALSE
  /\ now = 0
  /\ calls = 0
  /\ req = [ r \in Requests |-> IdleRequest ]
  /\ testIndex = 0
  /\ timerConfig \in LimitConfigs
  /\ \E persisted \in RunningStates :
       /\ timerState = persisted
       /\ persistedState = << persisted >>
  /\ appState = "background"
  /\ awaySeconds \in ElapsedSeconds
  /\ currentTheme = DEFAULT_THEME
  /\ pendingChange = << >>
  /\ SettingsLoaded(timerConfig)
  /\ NothingTyped
  /\ NothingSaved

\* synchronizeTimerState(persistedState, config)
Synchronizes ==
  /\ appState = "background"
  /\ appState' = "active"
  /\ timerState' = SynchronizeTimerState(persistedState[1], timerConfig, awaySeconds)
  /\ UNCHANGED << generationVars, storageVars, settingsVars, promptVars,
                  timerConfig, persistedState, awaySeconds, currentTheme,
                  pendingChange >>

NextSynchronize == Synchronizes

SpecSynchronize == InitSynchronize /\ [][NextSynchronize]_vars

\* the configured duration of a phase
PhaseDuration(timerConfiguration, phase) ==
  IF phase = "study" THEN timerConfiguration.studyDuration
  ELSE timerConfiguration.breakDuration

\* the persisted phase has ended during the elapsed seconds
PhaseEnded == persistedState[1].timeRemaining - awaySeconds <= 0

StudyPhasesEnded(persisted, timerConfiguration, elapsedSeconds) ==
  LET after == elapsedSeconds - persisted.timeRemaining
      cycle == timerConfiguration.studyDuration + timerConfiguration.breakDuration
  IN  IF after < 0 THEN 0
      ELSE IF persisted.phase = "study" THEN 1 + (after \div cycle)
      ELSE IF after < timerConfiguration.studyDuration THEN 0
      ELSE 1 + ((after - timerConfiguration.studyDuration) \div cycle)

\* C37: completedPomodoros goes up by one for each study phase that runs to
\* completion, by a tick in the foreground or during the seconds the app was
\* in the background, and changes in no other step, a reset to 0 apart.
C37_PomodorosCountStudyPhases ==
  [][IF /\ appState = "background"
        /\ appState' = "active"
        /\ persistedState # << >>
        /\ persistedState[1].isRunning
        /\ ~persistedState[1].isPaused
     THEN timerState'.completedPomodoros
            = persistedState[1].completedPomodoros
                + StudyPhasesEnded(persistedState[1], timerConfig, awaySeconds)
     ELSE IF /\ timerState.isRunning
             /\ timerState.phase = "study"
             /\ timerState'.phase = "break"
     THEN timerState'.completedPomodoros = timerState.completedPomodoros + 1
     ELSE \/ timerState'.completedPomodoros = timerState.completedPomodoros
          \/ timerState' = CreateInitialTimerState(timerConfig)]_vars

====
